---- MODULE Spec2Model ----
(***************************************************************************)
(* Multi-run statistical aggregation pipeline of mcp_server_benchmark:     *)
(* compare_multi_run_suite.py (ci95, safe_mean, load_json,                 *)
(* agg_dataset_file, agg_extended_file, collect_runs, main).               *)
(*                                                                         *)
(* Numbers are binary floating-point values with Prec significant bits,    *)
(* held as integer multiples of the smallest quantum 2^-FracBits; every    *)
(* arithmetic operation rounds its exact result to the nearest             *)
(* representable value, ties to even, as IEEE-754 does for Python floats   *)
(* and numpy float64 (there Prec = 53).  Magnitudes are bounded, so        *)
(* overflow to infinity does not occur.                                    *)
(***************************************************************************)
EXTENDS Integers, Sequences, FiniteSets, TLC

VARIABLES
    pc,          \* position of the running program
    ci_x,        \* ci95: the argument x
    ci_out,      \* ci95: the returned triple (m, lo, hi)
    ds_file,     \* agg_dataset_file: the content found at path
    ds_out,      \* agg_dataset_file: the returned summary (or the raise)
    args,        \* main: args.bare and args.ctn, the run directories
    env_i,       \* main: which collect_runs call is running (index into ENVS)
    ridx,        \* collect_runs: runs of dirs processed so far
    ds_rows,     \* collect_runs: local list ds_rows
    ops_rows,    \* collect_runs: local list ops_rows
    perf_rows,   \* collect_runs: local list perf_rows (the frames, row by row)
    frames,      \* main: (ds_df, ops_df, perf_df) returned for each environment
    per_run_index, \* per_run_index.csv
    ds_summary,  \* datasets_summary.csv
    wide_rows,   \* datasets_summary_wide.csv
    lines,       \* main: the per-load curves of each environment
    ops_all,     \* extended_ops_summary.csv
    ext_file,    \* agg_extended_file: the content found at path
    ext_out,     \* agg_extended_file: the returned value (or the raise)
    docker_log,  \* aggregate_extended: docker_stats_raw.json (absent, or its lines)
    pidstat_log, \* aggregate_extended: pidstat_raw.txt (absent, or its lines)
    opened,      \* aggregate_extended: the resource logs opened so far
    res_i,       \* aggregate_extended: lines of the open log consumed so far
    cpu_vals,    \* aggregate_extended: list cpu_vals
    rss_vals,    \* aggregate_extended: list rss_vals
    summary,     \* aggregate_extended: extended_summary.json as written
    csv_files,   \* aggregate_extended: the metrics_*_stats.csv files, in glob order
    perf_dict,   \* aggregate_extended: dict perf, in insertion order
    cycles_file, \* aggregate_extended: perf_cycles.txt (absent, or its lines)
    deploy_s,    \* aggregate_extended: float(deploy_s)
    ev_script,   \* evaluate_*.py: which evaluator runs
    ev_rows,     \* evaluate_*.py: the examples; for each, whether it has answers
    ev_i,        \* evaluate_*.py: examples finished so far
    ev_results,  \* evaluate_*.py: list results
    ev_written   \* evaluate_*.py: whether args.out is written

ciVars == <<ci_x, ci_out>>
aggVars == <<ds_file, ds_out>>
collectVars == <<env_i, ridx, ds_rows, ops_rows, perf_rows, frames>>
reportVars == <<per_run_index, ds_summary, wide_rows, lines, ops_all>>
pipeVars == <<args, collectVars, reportVars>>
extVars == <<ext_file, ext_out>>
cycVars == <<csv_files, perf_dict, cycles_file, deploy_s>>
resVars == <<docker_log, pidstat_log, opened, res_i, cpu_vals, rss_vals, summary, cycVars>>
evalVars == <<ev_script, ev_rows, ev_i, ev_results, ev_written>>
toolVars == <<extVars, resVars, evalVars>>

vars == <<pc, ciVars, aggVars, pipeVars, toolVars>>

----------------------------------------------------------------------------
(* Bounds of the model *)

\* significant bits of a floating-point number
Prec == 8
\* fractional bits: the value 1.0 is 2^FracBits quanta
FracBits == 3
\* longest per-run sample list handed to ci95
MaxSamples == 3
\* longest list of records in a dataset-eval file
MaxRecords == 3
\* most --bare run directories
MaxBareRuns == 3
\* most --ctn run directories
MaxCtnRuns == 1
\* most entries of per_load in an extended summary
MaxLoadEntries == 2
\* most lines of the two resource logs together
MaxLogLines == 3
\* most examples of the dataset an evaluator runs over
MaxExamples == 3
\* most metrics_*_stats.csv files of a run directory
MaxCsvFiles == 2

----------------------------------------------------------------------------
(* Floating-point arithmetic *)

RECURSIVE Pow2(_)
Pow2(n) == IF n = 0 THEN 1 ELSE 2 * Pow2(n - 1)

One == Pow2(FracBits)

Abs(i) == IF i < 0 THEN -i ELSE i

Sgn(i) == IF i < 0 THEN -1 ELSE 1

\* least e >= 0 with a / den < 2^(Prec + e): the exponent of the binade of a / den
RECURSIVE FExp(_, _, _)
FExp(a, den, e) == IF a < den * Pow2(Prec + e) THEN e ELSE FExp(a, den, e + 1)

\* a / d (a >= 0, d > 0) rounded to the nearest integer, ties to even
RoundQ(a, d) ==
    LET q == a \div d
        r == a % d
    IN  IF 2 * r < d THEN q
        ELSE IF 2 * r > d THEN q + 1
        ELSE IF q % 2 = 0 THEN q ELSE q + 1

\* the rational num / den (den > 0), in quanta, rounded to a representable value
FRound(num, den) ==
    LET a == Abs(num)
        s == Pow2(FExp(a, den, 0))
    IN  Sgn(num) * RoundQ(a, den * s) * s

\* spacing of the representable values in the binade of v
Ulp(v) == Pow2(FExp(Abs(v), 1, 0))

FAdd(x, y) == FRound(x + y, 1)
FSub(x, y) == FRound(x - y, 1)
FMul(x, y) == FRound(x * y, One)
FDiv(x, y) == FRound(x * One, y)

ISqrt(n) == CHOOSE k \in 0..n : k * k <= n /\ (k + 1) * (k + 1) > n

RECURSIVE SqrtExp(_, _)
SqrtExp(n, e) == IF n < Pow2(2 * (Prec + e)) THEN e ELSE SqrtExp(n, e + 1)

\* the square root of x (x >= 0), correctly rounded
FSqrt(x) ==
    LET n == x * One
        s == Pow2(SqrtExp(n, 0))
        k == ISqrt(n \div (s * s))
        h == s * s * (2 * k + 1) * (2 * k + 1)
    IN  IF 4 * n < h THEN k * s
        ELSE IF 4 * n > h THEN (k + 1) * s
        ELSE IF k % 2 = 0 THEN k * s ELSE (k + 1) * s

\* an integer n as a float
FInt(n) == FRound(n * One, 1)

----------------------------------------------------------------------------
(* Values: a float or the no-data marker NaN *)

Num(v) == [t |-> "num", v |-> v]
NaN == [t |-> "nan", v |-> 0]
\* an integer cell of a table (a Python int)
IntCell(v) == [t |-> "int", v |-> v]
IsNum(x) == x.t = "num"
IsNaN(x) == x.t = "nan"

RECURSIVE FSum(_)
\* np.add.reduce over a short array: left to right, rounding after every addition
FSum(s) == IF s = <<>> THEN 0
           ELSE IF Len(s) = 1 THEN s[1]
           ELSE FAdd(FSum(SubSeq(s, 1, Len(s) - 1)), s[Len(s)])

\* ndarray.mean(): the sum divided by the length
FMean(s) == FDiv(FSum(s), FInt(Len(s)))

\* ndarray.std(ddof): sqrt(sum((x - mean)^2) / (n - ddof))
FStd(s, ddof) ==
    LET m == FMean(s)
        sq == [i \in 1..Len(s) |-> FMul(FSub(s[i], m), FSub(s[i], m))]
    IN  FSqrt(FDiv(FSum(sq), FInt(Len(s) - ddof)))

\* the literal 1.96
Z95 == FRound(196 * One, 100)

----------------------------------------------------------------------------
(* ci95: mean and 95% confidence interval of the per-run samples *)

\* x[~np.isnan(x)]
DropNaN(x) ==
    LET kept == SelectSeq(x, LAMBDA v : ~IsNaN(v))
    IN  [i \in 1..Len(kept) |-> kept[i].v]

\* ci95 with the upper bound built from the standard error instead of the half-width
ci95_skewed(x) ==
    LET xs == DropNaN(x)
        n == Len(xs)
        m == FMean(xs)
        se == FDiv(FStd(xs, 1), FSqrt(FInt(n)))
        d == FMul(Z95, se)
    IN  IF n = 0 THEN [m |-> NaN, lo |-> NaN, hi |-> NaN]
        ELSE IF n = 1 THEN [m |-> Num(m), lo |-> Num(m), hi |-> Num(m)]
        ELSE [m |-> Num(m), lo |-> Num(FSub(m, d)), hi |-> Num(FAdd(m, se))]

\* ci95 without the single-sample branch: std(ddof=1) of one value is 0/0
ci95_nosingle(x) ==
    LET xs == DropNaN(x)
        n == Len(xs)
        m == FMean(xs)
        se == FDiv(FStd(xs, 1), FSqrt(FInt(n)))
        d == FMul(Z95, se)
    IN  IF n = 0 THEN [m |-> NaN, lo |-> NaN, hi |-> NaN]
        ELSE IF n = 1 THEN [m |-> Num(m), lo |-> NaN, hi |-> NaN]
        ELSE [m |-> Num(m), lo |-> Num(FSub(m, d)), hi |-> Num(FAdd(m, d))]

ci95(x) ==
    LET xs == DropNaN(x)
        n == Len(xs)
        m == FMean(xs)
        se == FDiv(FStd(xs, 1), FSqrt(FInt(n)))
        d == FMul(Z95, se)
    IN  IF n = 0 THEN [m |-> NaN, lo |-> NaN, hi |-> NaN]
        ELSE IF n = 1 THEN [m |-> Num(m), lo |-> Num(m), hi |-> Num(m)]
        ELSE [m |-> Num(m), lo |-> Num(FSub(m, d)), hi |-> Num(FAdd(m, d))]

\* ci_out before ci95 has returned
NoOut == [m |-> NaN, lo |-> NaN, hi |-> NaN]

----------------------------------------------------------------------------
(* JSON documents on disk *)

\* a value stored under a key of an object: the key is missing, or holds null,
\* NaN, a number or a string
Missing == [t |-> "missing", v |-> 0]
None == [t |-> "none", v |-> 0]
Str == [t |-> "str", v |-> 0]

\* the metric keys read from a record of a dataset-eval file
EvalKeys == {"bleu", "rouge", "pass@1", "latency"}

\* an element of a dataset-eval list: an object (k = "object") with its fields, or
\* a value of another JSON type
Rec(b, r, p, l) ==
    [k |-> "object",
     f |-> [key \in EvalKeys |->
              CASE key = "bleu" -> b [] key = "rouge" -> r
                [] key = "pass@1" -> p [] key = "latency" -> l]]

NonObject(kind) == [k |-> kind, f |-> [key \in EvalKeys |-> Missing]]

RecOk1 == Rec(Num(One \div 2), Num((3 * One) \div 4), Num(One), Num(100 * One))
RecOk2 == Rec(Num(One \div 4), Num(One \div 2), Num(0), Num(200 * One))
RecErr == Rec(Num(0), Num(0), Num(0), None)
RecPartial == Rec(Missing, Num(One \div 2), Missing, Num(100 * One))
RecNaN == Rec(NaN, Num(One), Num(One), Missing)
RecStr == Rec(Str, Num(One), Num(One), Num(100 * One))

\* the records of the dataset-eval files: two scored examples, the evaluator's
\* error record, a record lacking fields, a record holding NaN, a record holding a
\* string in a metric field, and an element that is a number instead of an object
EvalRecords == {RecOk1, RecOk2, RecErr, RecPartial, RecNaN, RecStr, NonObject("number")}

\* what open() and json.load find at a path: no file, a file that cannot be read,
\* text that is no JSON, or a JSON document of some type (items: the elements of a list)
FileKinds == {"absent", "unreadable", "garbage", "null", "number", "string", "object", "list"}

File(kind, items) == [k |-> kind, items |-> items]

DatasetFiles ==
    {File(kind, <<>>) : kind \in FileKinds}
      \cup {File("list", items) : items \in UNION {[1..n -> EvalRecords] : n \in 1..MaxRecords}}

\* load_json: the parsed document, or None when open() or json.load raises
load_json(file) ==
    IF file.k \in {"absent", "unreadable", "garbage"} THEN File("null", <<>>) ELSE file

\* d.get(key) raises AttributeError unless d is a dict
GetRaises(d) == d.k # "object"

\* d.get(key) on a dict: None for a missing key
Get(d, key) == IF d.f[key] = Missing THEN None ELSE d.f[key]

\* safe_mean: the filter of its first line
SafeKept(vals) == SelectSeq(vals, LAMBDA v : v # None /\ ~IsNaN(v))

\* np.mean raises on a list holding a string
SafeMeanRaises(vals) == \E i \in 1..Len(SafeKept(vals)) : SafeKept(vals)[i].t = "str"

\* safe_mean with a missing value counted as zero
safe_mean_zero(vals) ==
    LET kept == [i \in 1..Len(vals) |-> IF IsNum(vals[i]) THEN vals[i].v ELSE 0]
    IN  IF kept # <<>> THEN Num(FMean(kept)) ELSE NaN

safe_mean(vals) ==
    LET kept == [i \in 1..Len(SafeKept(vals)) |-> SafeKept(vals)[i].v]
    IN  IF kept # <<>> THEN Num(FMean(kept)) ELSE NaN

Column(data, key) == [i \in 1..Len(data) |-> Get(data[i], key)]

Summary(b, r, p, l, c) ==
    [raised |-> FALSE, bleu |-> b, rouge |-> r, pass1 |-> p, latency_ms |-> l, count |-> c]

\* an exception leaves agg_dataset_file: there is no summary
Raised == [raised |-> TRUE, bleu |-> NaN, rouge |-> NaN, pass1 |-> NaN, latency_ms |-> NaN, count |-> 0]

\* agg_dataset_file reporting zeros for a file without data
agg_dataset_file_zeros(file) ==
    LET js == load_json(file)
        data == js.items
    IN  IF js.k # "list" \/ Len(data) = 0
        THEN Summary(Num(0), Num(0), Num(0), Num(0), 0)
        ELSE IF \E i \in 1..Len(data) : GetRaises(data[i]) THEN Raised
        ELSE IF \E key \in EvalKeys : SafeMeanRaises(Column(data, key)) THEN Raised
        ELSE Summary(safe_mean(Column(data, "bleu")), safe_mean(Column(data, "rouge")),
                     safe_mean(Column(data, "pass@1")), safe_mean(Column(data, "latency")),
                     Len(data))

agg_dataset_file(file) ==
    LET js == load_json(file)
        data == js.items
    IN  IF js.k # "list" \/ Len(data) = 0
        THEN Summary(NaN, NaN, NaN, NaN, 0)
        ELSE IF \E i \in 1..Len(data) : GetRaises(data[i]) THEN Raised
        ELSE IF \E key \in EvalKeys : SafeMeanRaises(Column(data, key)) THEN Raised
        ELSE Summary(safe_mean(Column(data, "bleu")), safe_mean(Column(data, "rouge")),
                     safe_mean(Column(data, "pass@1")), safe_mean(Column(data, "latency")),
                     Len(data))

----------------------------------------------------------------------------
(* The fixed lists *)

DATASETS == <<"Alpaca", "SQuADv2", "BoolQ">>
ENVS == <<"Bare-Metal", "Container">>
DS_METRICS == <<"bleu", "rouge", "pass1", "latency_ms">>

\* collect_runs: the file read for each dataset
DatasetFileNames ==
    <<[ds_name |-> "Alpaca", fname |-> "alpaca_eval.json"],
      [ds_name |-> "SQuADv2", fname |-> "squad_eval.json"],
      [ds_name |-> "BoolQ", fname |-> "boolq_eval.json"]>>

----------------------------------------------------------------------------
(* int(u): a key of per_load, a string given as its characters, to an integer *)

Digits == <<"0", "1", "2", "3", "4", "5", "6", "7", "8", "9">>

IsDigit(c) == \E i \in 1..10 : Digits[i] = c

DigitVal(c) == (CHOOSE i \in 1..10 : Digits[i] = c) - 1

RECURSIVE LStrip(_)
LStrip(u) == IF u # <<>> /\ u[1] = " " THEN LStrip(Tail(u)) ELSE u

RECURSIVE RStrip(_)
RStrip(u) == IF u # <<>> /\ u[Len(u)] = " " THEN RStrip(SubSeq(u, 1, Len(u) - 1)) ELSE u

\* the digits of the literal: after surrounding blanks and one sign are removed
Unsigned(u) ==
    LET t == RStrip(LStrip(u))
    IN  IF t # <<>> /\ t[1] \in {"+", "-"} THEN Tail(t) ELSE t

Negative(u) == LET t == RStrip(LStrip(u)) IN t # <<>> /\ t[1] = "-"

\* digits, with single underscores only between digits
IntLiteral(d) ==
    /\ d # <<>>
    /\ IsDigit(d[1]) /\ IsDigit(d[Len(d)])
    /\ \A i \in 1..Len(d) : IsDigit(d[i]) \/ d[i] = "_"
    /\ \A i \in 1..Len(d) - 1 : ~(d[i] = "_" /\ d[i + 1] = "_")

\* int(u) does not raise ValueError
PyIntOk(u) == IntLiteral(Unsigned(u))

RECURSIVE DigitsValue(_, _)
DigitsValue(d, acc) ==
    IF d = <<>> THEN acc
    ELSE IF d[1] = "_" THEN DigitsValue(Tail(d), acc)
    ELSE DigitsValue(Tail(d), 10 * acc + DigitVal(d[1]))

PyInt(u) == IF Negative(u) THEN -DigitsValue(Unsigned(u), 0) ELSE DigitsValue(Unsigned(u), 0)

----------------------------------------------------------------------------
(* extended_summary.json and agg_extended_file *)

OpsKeys == {"deploy_time_s", "cold_start_ms", "mean_cpu_pct", "peak_cpu_pct",
            "mean_rss_mb", "peak_rss_mb", "image_size_bytes", "cycles_per_req"}

\* the value of a per_load entry: an object with p95_ms and throughput_rps, or a
\* value of another JSON type
LoadRec(p95, rps) == [k |-> "object", p95_ms |-> p95, throughput_rps |-> rps]

LoadNonObject(kind) == [k |-> kind, p95_ms |-> Missing, throughput_rps |-> Missing]

LoadEntry(u, rec) == [key |-> u, rec |-> rec]

\* the file: its kind (as for File), the scalar fields of the object, the kind of
\* the value under "per_load" and, when that is an object, its entries in file order
ExtFile(kind, ops, pl_kind, pl) == [k |-> kind, ops |-> ops, pl_k |-> pl_kind, pl |-> pl]

NoOps == [key \in OpsKeys |-> Missing]

ExtNonObject(kind) == ExtFile(kind, NoOps, "missing", <<>>)

\* js.get(name) of the object
OpsOf(js) == [key \in OpsKeys |-> IF js.ops[key] = Missing THEN None ELSE js.ops[key]]

\* js.get("per_load") or {}: a missing, null or empty value reads as no entries
PerLoadItems(js) == IF js.pl_k = "object" THEN js.pl ELSE <<>>

\* .items() raises on a non-empty list, a number or a string
PerLoadRaises(js) == js.pl_k \notin {"missing", "null", "object"}

RecGet(v) == IF v = Missing THEN None ELSE v

PerLoadRow(e) ==
    [users |-> PyInt(e.key), p95_ms |-> RecGet(e.rec.p95_ms),
     throughput_rps |-> RecGet(e.rec.throughput_rps)]

\* the loop over pl.items(): an entry whose key is no integer is skipped
PerLoadRows(js) ==
    LET kept == SelectSeq(PerLoadItems(js), LAMBDA e : PyIntOk(e.key))
    IN  [i \in 1..Len(kept) |-> PerLoadRow(kept[i])]

\* rec.get raises on an entry with an integer key whose value is no object
RecGetRaises(js) ==
    \E i \in 1..Len(PerLoadItems(js)) :
        PyIntOk(PerLoadItems(js)[i].key) /\ PerLoadItems(js)[i].rec.k # "object"

\* the result: None (k = "none"), an exception (k = "raised"), or (ops, perf_df)
ExtResult(kind, ops, perf) == [k |-> kind, ops |-> ops, perf |-> perf]

\* load_json for the extended summary: only its kind matters for the None result
ExtLoaded(file) == file.k \notin {"absent", "unreadable", "garbage"}

agg_extended_file(file) ==
    IF ~(ExtLoaded(file) /\ file.k = "object") THEN ExtResult("none", NoOps, <<>>)
    ELSE IF PerLoadRaises(file) \/ RecGetRaises(file) THEN ExtResult("raised", NoOps, <<>>)
    ELSE ExtResult("ok", OpsOf(file), PerLoadRows(file))

----------------------------------------------------------------------------
(* The run directories on disk *)

OpsFull(deploy, cold) ==
    [key \in OpsKeys |->
        CASE key = "deploy_time_s" -> Num(deploy)
          [] key = "cold_start_ms" -> Num(cold)
          [] key = "image_size_bytes" -> None
          [] key = "cycles_per_req" -> None
          [] OTHER -> Num(One)]

RunDir(alpaca, squad, boolq, ext) ==
    [files |-> [fname \in {"alpaca_eval.json", "squad_eval.json", "boolq_eval.json"} |->
                  CASE fname = "alpaca_eval.json" -> alpaca
                    [] fname = "squad_eval.json" -> squad
                    [] fname = "boolq_eval.json" -> boolq],
     ext |-> ext]

\* a complete run reporting the levels 10 and 50 (the latter under the key "050")
DirA == RunDir(File("list", <<RecOk1, RecOk2>>), File("list", <<RecOk1>>),
               File("list", <<RecOk2, RecErr>>),
               ExtFile("object", OpsFull(2 * One, 100 * One), "object",
                       <<LoadEntry(<<"1", "0">>, LoadRec(Num(100 * One), Num((7 * One) \div 2))),
                         LoadEntry(<<"0", "5", "0">>, LoadRec(Num(200 * One), Num(7 * One)))>>))

\* a run with partial records, reporting level 10 (no throughput) and a key "x"
DirB == RunDir(File("list", <<RecOk2>>), File("list", <<RecPartial>>),
               File("list", <<RecNaN>>),
               ExtFile("object", OpsFull(One, 200 * One), "object",
                       <<LoadEntry(<<"1", "0">>, LoadRec(Num(200 * One), None)),
                         LoadEntry(<<"x">>, LoadNonObject("number"))>>))

\* a run without data: no alpaca file, unparseable squad file, empty boolq list,
\* no extended summary
DirC == RunDir(File("absent", <<>>), File("garbage", <<>>), File("list", <<>>),
               ExtNonObject("absent"))

\* a run whose squad file is an object and whose boolq file cannot be read; its
\* extended summary is a JSON list
DirD == RunDir(File("list", <<RecOk1>>), File("object", <<>>), File("unreadable", <<>>),
               ExtNonObject("list"))

\* a run whose alpaca list holds a number among its records
DirE == RunDir(File("list", <<RecOk1, NonObject("number")>>), File("list", <<RecOk1>>),
               File("list", <<RecOk1>>), ExtNonObject("garbage"))

RunDirs == <<DirA, DirB, DirC, DirD, DirE>>

DirIds == 1..Len(RunDirs)

----------------------------------------------------------------------------
(* collect_runs *)

EnvDirs(e) == IF ENVS[e] = "Bare-Metal" THEN args.bare ELSE args.ctn

DsRow(env_label, run, rdir, ds_name, vals) ==
    [env |-> env_label, run |-> run, run_dir |-> rdir, dataset |-> ds_name,
     bleu |-> vals.bleu, rouge |-> vals.rouge, pass1 |-> vals.pass1,
     latency_ms |-> vals.latency_ms, count |-> vals.count]

OpsRow(env_label, run, rdir, ops) ==
    [env |-> env_label, run |-> run, run_dir |-> rdir, ops |-> ops]

PerfRow(env_label, run, rdir, r) ==
    [users |-> r.users, p95_ms |-> r.p95_ms, throughput_rps |-> r.throughput_rps,
     env |-> env_label, run |-> run, run_dir |-> rdir]

\* the three summaries of one run directory, in the order of the inner loop
RunSummaries(rdir) ==
    [i \in 1..Len(DatasetFileNames) |->
        agg_dataset_file(RunDirs[rdir].files[DatasetFileNames[i].fname])]

\* the body of the loop raises: in a dataset file, or in the extended summary
RunRaises(rdir) ==
    \/ \E i \in 1..Len(DatasetFileNames) : RunSummaries(rdir)[i].raised
    \/ agg_extended_file(RunDirs[rdir].ext).k = "raised"

RunDsRows(env_label, run, rdir) ==
    [i \in 1..Len(DatasetFileNames) |->
        DsRow(env_label, run, rdir, DatasetFileNames[i].ds_name, RunSummaries(rdir)[i])]

\* collect_runs appending an operational row without testing ext
RunOpsRows_always(env_label, run, rdir) ==
    <<OpsRow(env_label, run, rdir, agg_extended_file(RunDirs[rdir].ext).ops)>>

RunOpsRows(env_label, run, rdir) ==
    LET ext == agg_extended_file(RunDirs[rdir].ext)
    IN  IF ext.k = "ok" THEN <<OpsRow(env_label, run, rdir, ext.ops)>> ELSE <<>>

RunPerfRows(env_label, run, rdir) ==
    LET ext == agg_extended_file(RunDirs[rdir].ext)
    IN  IF ext.k = "ok"
        THEN [i \in 1..Len(ext.perf) |-> PerfRow(env_label, run, rdir, ext.perf[i])]
        ELSE <<>>

NoFrames == [ds |-> <<>>, ops |-> <<>>, perf |-> <<>>]

\* one iteration of the loop over dirs
CollectRun ==
    /\ pc = "collect"
    /\ ridx < Len(EnvDirs(env_i))
    /\ LET rdir == EnvDirs(env_i)[ridx + 1]
           env_label == ENVS[env_i]
       IN  /\ ~RunRaises(rdir)
           /\ ds_rows' = ds_rows \o RunDsRows(env_label, ridx + 1, rdir)
           /\ ops_rows' = ops_rows \o RunOpsRows(env_label, ridx + 1, rdir)
           /\ perf_rows' = perf_rows \o RunPerfRows(env_label, ridx + 1, rdir)
    /\ ridx' = ridx + 1
    /\ UNCHANGED <<pc, env_i, frames, args, reportVars, ciVars, aggVars, toolVars>>

\* an iteration raises: the exception leaves collect_runs and main
CollectRaise ==
    /\ pc = "collect"
    /\ ridx < Len(EnvDirs(env_i))
    /\ RunRaises(EnvDirs(env_i)[ridx + 1])
    /\ pc' = "raised"
    /\ ds_rows' = <<>> /\ ops_rows' = <<>> /\ perf_rows' = <<>>
    /\ UNCHANGED <<env_i, ridx, frames, args, reportVars, ciVars, aggVars, toolVars>>

\* the loop is over: the three frames are returned; main calls collect_runs for
\* the next environment or goes on
CollectReturn ==
    /\ pc = "collect"
    /\ ridx = Len(EnvDirs(env_i))
    /\ frames' = [frames EXCEPT ![ENVS[env_i]] =
                     [ds |-> ds_rows, ops |-> ops_rows, perf |-> perf_rows]]
    /\ ds_rows' = <<>> /\ ops_rows' = <<>> /\ perf_rows' = <<>>
    /\ ridx' = 0
    /\ IF env_i < Len(ENVS)
       THEN env_i' = env_i + 1 /\ pc' = "collect"
       ELSE env_i' = env_i /\ pc' = "index"
    /\ UNCHANGED <<args, reportVars, ciVars, aggVars, toolVars>>

----------------------------------------------------------------------------
(* main: the reports *)

EnvSet == {ENVS[i] : i \in 1..Len(ENVS)}

RECURSIVE Concat(_)
\* the rows appended by the iterations of a loop, in order
Concat(ss) == IF ss = <<>> THEN <<>> ELSE ss[1] \o Concat(Tail(ss))

RECURSIVE DropDuplicates(_)
\* DataFrame.drop_duplicates: the first occurrence of every row
DropDuplicates(rows) ==
    IF rows = <<>> THEN <<>>
    ELSE LET init == DropDuplicates(SubSeq(rows, 1, Len(rows) - 1))
             last == rows[Len(rows)]
         IN  IF \E i \in 1..Len(init) : init[i] = last THEN init ELSE Append(init, last)

IndexRows(ds) == [i \in 1..Len(ds) |-> [env |-> ds[i].env, run |-> ds[i].run, run_dir |-> ds[i].run_dir]]

\* pd.to_numeric(errors='coerce'): what is no number becomes NaN
ToNumeric(v) == IF IsNum(v) THEN v ELSE NaN

MetricOf(row, metric) ==
    CASE metric = "bleu" -> row.bleu
      [] metric = "rouge" -> row.rouge
      [] metric = "pass1" -> row.pass1
      [] metric = "latency_ms" -> row.latency_ms

DsAll == frames["Bare-Metal"].ds \o frames["Container"].ds

SummaryRow(ds, env, metric) ==
    LET sub == SelectSeq(DsAll, LAMBDA r : r.dataset = ds /\ r.env = env)
        c == ci95([i \in 1..Len(sub) |-> ToNumeric(MetricOf(sub[i], metric))])
    IN  [dataset |-> ds, env |-> env, metric |-> metric,
         mean |-> c.m, ci_low |-> c.lo, ci_high |-> c.hi, n |-> IntCell(Len(sub))]

\* the summary without the rows of the groups that have no data
SummaryRows_dropempty ==
    SelectSeq(
      Concat([d \in 1..Len(DATASETS) |->
        Concat([e \in 1..Len(ENVS) |->
          [m \in 1..Len(DS_METRICS) |-> SummaryRow(DATASETS[d], ENVS[e], DS_METRICS[m])]])]),
      LAMBDA r : ~IsNaN(r.mean))

\* the summary with the datasets in groupby order (sorted by name)
SummaryRows_grouped ==
    Concat([d \in 1..Len(DATASETS) |->
      Concat([e \in 1..Len(ENVS) |->
        [m \in 1..Len(DS_METRICS) |->
            SummaryRow(<<"Alpaca", "BoolQ", "SQuADv2">>[d], ENVS[e], DS_METRICS[m])]])])

\* the three nested loops over DATASETS, ENVS and DS_METRICS
SummaryRows ==
    Concat([d \in 1..Len(DATASETS) |->
      Concat([e \in 1..Len(ENVS) |->
        [m \in 1..Len(DS_METRICS) |-> SummaryRow(DATASETS[d], ENVS[e], DS_METRICS[m])]])])

\* the cell taken from the first row of the dataset and metric, whatever its env
WideCell_anyenv(ds, env, metric) ==
    LET val == SelectSeq(ds_summary, LAMBDA r : r.dataset = ds /\ r.metric = metric)
    IN  IF Len(val) > 0 THEN val[1].mean ELSE NaN

\* one cell of the wide table: the mean of the first matching row of ds_summary
WideCell(ds, env, metric) ==
    LET val == SelectSeq(ds_summary,
                         LAMBDA r : r.dataset = ds /\ r.env = env /\ r.metric = metric)
    IN  IF Len(val) > 0 THEN val[1].mean ELSE NaN

\* the column name f"{env}_{metric}" is held as the pair <<env, metric>>
WideRows ==
    [d \in 1..Len(DATASETS) |->
        [Dataset |-> DATASETS[d],
         cells |-> [col \in EnvSet \X {DS_METRICS[m] : m \in 1..Len(DS_METRICS)} |->
                       WideCell(DATASETS[d], col[1], col[2])]]]

PerfAll == frames["Bare-Metal"].perf \o frames["Container"].perf

RECURSIVE Sorted(_)
\* sorted(keys): ascending
Sorted(S) ==
    IF S = {} THEN <<>>
    ELSE LET least == CHOOSE x \in S : \A y \in S : x <= y
         IN  <<least>> \o Sorted(S \ {least})

PerfCol(row, col) == IF col = "p95_ms" THEN row.p95_ms ELSE row.throughput_rps

\* agg_col: ci95 of the column over the group of every level
AggCol(sub, users_sorted, col) ==
    LET stat(u) ==
          LET grp == SelectSeq(sub, LAMBDA r : r.users = u)
          IN  ci95([i \in 1..Len(grp) |-> ToNumeric(PerfCol(grp[i], col))])
    IN  [means |-> [i \in 1..Len(users_sorted) |-> stat(users_sorted[i]).m],
         lows |-> [i \in 1..Len(users_sorted) |-> stat(users_sorted[i]).lo],
         highs |-> [i \in 1..Len(users_sorted) |-> stat(users_sorted[i]).hi]]

NoCol == [means |-> <<>>, lows |-> <<>>, highs |-> <<>>]

\* an environment without a curve: lines has no entry for it
NoLine == [present |-> FALSE, users |-> <<>>, p95 |-> NoCol, rps |-> NoCol]

\* the curve over the levels that every run of the environment reported
Line_common(env) ==
    LET sub == SelectSeq(PerfAll, LAMBDA r : r.env = env)
        runs == {sub[i].run : i \in 1..Len(sub)}
        users_sorted == Sorted({u \in {sub[i].users : i \in 1..Len(sub)} :
                                  \A r \in runs : \E i \in 1..Len(sub) :
                                      sub[i].run = r /\ sub[i].users = u})
    IN  IF sub = <<>> THEN NoLine
        ELSE [present |-> TRUE, users |-> users_sorted,
              p95 |-> AggCol(sub, users_sorted, "p95_ms"),
              rps |-> AggCol(sub, users_sorted, "throughput_rps")]

Line(env) ==
    LET sub == SelectSeq(PerfAll, LAMBDA r : r.env = env)
        users_sorted == Sorted({sub[i].users : i \in 1..Len(sub)})
    IN  IF sub = <<>> THEN NoLine
        ELSE [present |-> TRUE, users |-> users_sorted,
              p95 |-> AggCol(sub, users_sorted, "p95_ms"),
              rps |-> AggCol(sub, users_sorted, "throughput_rps")]

WriteIndex ==
    /\ pc = "index"
    /\ per_run_index' = DropDuplicates(IndexRows(frames["Bare-Metal"].ds))
                           \o DropDuplicates(IndexRows(frames["Container"].ds))
    /\ pc' = "summary"
    /\ UNCHANGED <<ds_summary, wide_rows, lines, ops_all, args, collectVars, ciVars, aggVars, toolVars>>

WriteSummary ==
    /\ pc = "summary"
    /\ ds_summary' = SummaryRows
    /\ pc' = "wide"
    /\ UNCHANGED <<per_run_index, wide_rows, lines, ops_all, args, collectVars, ciVars, aggVars, toolVars>>

WriteWide ==
    /\ pc = "wide"
    /\ wide_rows' = WideRows
    /\ pc' = "perf"
    /\ UNCHANGED <<per_run_index, ds_summary, lines, ops_all, args, collectVars, ciVars, aggVars, toolVars>>

PerLoadCurves ==
    /\ pc = "perf"
    /\ lines' = [env \in EnvSet |-> Line(env)]
    /\ pc' = "ops"
    /\ UNCHANGED <<per_run_index, ds_summary, wide_rows, ops_all, args, collectVars, ciVars, aggVars, toolVars>>

WriteOps ==
    /\ pc = "ops"
    /\ ops_all' = frames["Bare-Metal"].ops \o frames["Container"].ops
    /\ pc' = "done"
    /\ UNCHANGED <<per_run_index, ds_summary, wide_rows, lines, args, collectVars, ciVars, aggVars, toolVars>>

----------------------------------------------------------------------------
(* Text of the resource logs: a string is the sequence of its characters.  *)
(* The logs are written with digits, ".", "-", "+", "%", "/", ":", blanks  *)
(* and letters; float() is modelled on that alphabet (decimal literals and *)
(* "nan"), without exponents, underscores or "inf".                        *)

RECURSIVE StripLeft(_, _)
StripLeft(u, cs) == IF u # <<>> /\ u[1] \in cs THEN StripLeft(Tail(u), cs) ELSE u

RECURSIVE StripRight(_, _)
StripRight(u, cs) ==
    IF u # <<>> /\ u[Len(u)] \in cs THEN StripRight(SubSeq(u, 1, Len(u) - 1), cs) ELSE u

\* str.strip(cs); str.strip() when cs is the blank
StripChars(u, cs) == StripRight(StripLeft(u, cs), cs)

\* pat occurs in u as a substring
Contains(u, pat) ==
    \E i \in 1..(Len(u) - Len(pat) + 1) : SubSeq(u, i, i + Len(pat) - 1) = pat

\* str.upper() of one character
UpperChar(c) ==
    CASE c = "k" -> "K" [] c = "m" -> "M" [] c = "g" -> "G"
      [] c = "i" -> "I" [] c = "b" -> "B" [] OTHER -> c

RECURSIVE Pow10(_)
Pow10(n) == IF n = 0 THEN 1 ELSE 10 * Pow10(n - 1)

\* a decimal literal: digits with at most one point and at least one digit
IsDecimal(d) ==
    /\ \A i \in 1..Len(d) : IsDigit(d[i]) \/ d[i] = "."
    /\ \E i \in 1..Len(d) : IsDigit(d[i])
    /\ Cardinality({i \in 1..Len(d) : d[i] = "."}) <= 1

\* the digits after the point
FracDigits(d) ==
    IF \E i \in 1..Len(d) : d[i] = "."
    THEN Len(d) - (CHOOSE i \in 1..Len(d) : d[i] = ".")
    ELSE 0

\* the decimal literal as the nearest float
DecimalValue(d) ==
    FRound(DigitsValue(SelectSeq(d, IsDigit), 0) * One, Pow10(FracDigits(d)))

\* the literal handed to float(), without surrounding blanks and sign
FloatBody(u) ==
    LET t == StripChars(u, {" "})
    IN  IF t # <<>> /\ t[1] \in {"+", "-"} THEN Tail(t) ELSE t

FloatNegative(u) == LET t == StripChars(u, {" "}) IN t # <<>> /\ t[1] = "-"

IsNanWord(d) == d = <<"n", "a", "n">>

\* float(u) does not raise ValueError
PyFloatOk(u) == IsDecimal(FloatBody(u)) \/ IsNanWord(FloatBody(u))

PyFloat(u) ==
    IF IsNanWord(FloatBody(u)) THEN NaN
    ELSE IF FloatNegative(u) THEN Num(-DecimalValue(FloatBody(u)))
    ELSE Num(DecimalValue(FloatBody(u)))

----------------------------------------------------------------------------
(* aggregate_extended.py: the resource monitor section                     *)
(*                                                                         *)
(* A CPU sample is a float in quanta of 2^-FracBits percent.  An RSS       *)
(* sample is a float in quanta of 2^-(FracBits + 10) MB, so that the       *)
(* factor 1/1024 of the kilobyte units is exact, as it is in binary        *)
(* floating point.                                                         *)

\* a resource log: absent, or a file with its lines
Log(present, lns) == [present |-> present, lines |-> lns]

AbsentLog == Log(FALSE, <<>>)

\* the value under a key of a parsed line: the key is missing, or holds a
\* string (s: its characters) or a number
JMissing == [t |-> "missing", s |-> <<>>]
JNumber == [t |-> "number", s |-> <<>>]
JStr(chars) == [t |-> "str", s |-> chars]

\* a line of docker_stats_raw.json: whether the stripped text starts with "{",
\* whether json.loads accepts it, and the cpu and mem members of the object
DockerLine(brace, json, cpu, mem) == [brace |-> brace, json |-> json, cpu |-> cpu, mem |-> mem]

\* quanta of an RSS sample in one MB
MbOne == One * Pow2(10)

\* the table with every unit read as megabytes
UnitFactor_megabytes(unit) == Pow2(10)

\* the table of unit factors, times 1024
UnitFactor(unit) ==
    CASE unit \in {<<"K", "B">>, <<"K", "I", "B">>} -> 1
      [] unit \in {<<"M", "B">>, <<"M", "I", "B">>} -> Pow2(10)
      [] unit \in {<<"G", "B">>, <<"G", "I", "B">>} -> Pow2(10) * Pow2(10)

\* mem.split('/')[0].strip()
BeforeSlash(u) ==
    LET cut == IF \E i \in 1..Len(u) : u[i] = "/"
               THEN (CHOOSE i \in 1..Len(u) : u[i] = "/" /\ \A j \in 1..(i - 1) : u[j] # "/") - 1
               ELSE Len(u)
    IN  StripChars(SubSeq(u, 1, cut), {" "})

RECURSIVE NumPrefixLen(_)
\* the longest prefix matched by [\d\.]+
NumPrefixLen(u) ==
    IF u # <<>> /\ (IsDigit(u[1]) \/ u[1] = ".") THEN 1 + NumPrefixLen(Tail(u)) ELSE 0

\* re.match(r'([\d\.]+)\s*([KMG]i?B)', mem, re.I): group 1 and group 2, upper-cased
MemMatch(mem) ==
    LET n == NumPrefixLen(mem)
        rest == StripLeft(SubSeq(mem, n + 1, Len(mem)), {" "})
        up == [i \in 1..Len(rest) |-> UpperChar(rest[i])]
        unit == IF Len(up) >= 3 /\ up[2] = "I" THEN SubSeq(up, 1, 3)
                ELSE SubSeq(up, 1, IF Len(up) >= 2 THEN 2 ELSE Len(up))
        ok == /\ n >= 1
              /\ Len(unit) >= 2
              /\ unit[1] \in {"K", "M", "G"}
              /\ unit[Len(unit)] = "B"
    IN  [ok |-> ok, num |-> SubSeq(mem, 1, n), unit |-> unit]

\* the lists after one line of the docker log; abort: json.loads raised
Lists(abort, cpu, rss) == [abort |-> abort, cpu |-> cpu, rss |-> rss]

\* the loop body taking a line only when both of its fields give a sample
DockerStep_allornothing(ln, cpu, rss) ==
    IF ~ln.brace THEN Lists(FALSE, cpu, rss)
    ELSE IF ~ln.json THEN Lists(TRUE, cpu, rss)
    ELSE IF ln.cpu.t # "str" \/ ~PyFloatOk(StripChars(ln.cpu.s, {"%"}))
         THEN Lists(FALSE, cpu, rss)
    ELSE LET cpu1 == Append(cpu, PyFloat(StripChars(ln.cpu.s, {"%"})))
             m == MemMatch(BeforeSlash(ln.mem.s))
         IN  IF ln.mem.t # "str" \/ ~m.ok \/ ~PyFloatOk(m.num)
             THEN Lists(FALSE, cpu, rss)
             ELSE Lists(FALSE, cpu1, Append(rss, Num(PyFloat(m.num).v * UnitFactor(m.unit))))

\* the body of the loop over docker_stats_raw.json (lines 40-53)
DockerStep(ln, cpu, rss) ==
    IF ~ln.brace THEN Lists(FALSE, cpu, rss)
    ELSE IF ~ln.json THEN Lists(TRUE, cpu, rss)
    ELSE IF ln.cpu.t # "str" \/ ~PyFloatOk(StripChars(ln.cpu.s, {"%"}))
         THEN Lists(FALSE, cpu, rss)
    ELSE LET cpu1 == Append(cpu, PyFloat(StripChars(ln.cpu.s, {"%"})))
             m == MemMatch(BeforeSlash(ln.mem.s))
         IN  IF ln.mem.t # "str" \/ ~m.ok \/ ~PyFloatOk(m.num)
             THEN Lists(FALSE, cpu1, rss)
             ELSE Lists(FALSE, cpu1, Append(rss, Num(PyFloat(m.num).v * UnitFactor(m.unit))))

\* a line of pidstat_raw.txt is held as its columns, ln.split(); a blank line
\* has none
PidstatSkipped(parts) ==
    \/ parts = <<>>
    \/ ~IsDigit(parts[1][1])
    \/ \E i \in 1..Len(parts) : Contains(parts[i], <<"%", "C", "P", "U">>)

\* float(parts[9]) / 1024 in RSS quanta
KbToMb(x) == IF IsNaN(x) THEN NaN ELSE Num(x.v)

\* the body of the loop over pidstat_raw.txt (lines 56-63)
PidstatStep(parts, cpu, rss) ==
    IF PidstatSkipped(parts) THEN Lists(FALSE, cpu, rss)
    ELSE IF Len(parts) < 7 \/ ~PyFloatOk(parts[7]) THEN Lists(FALSE, cpu, rss)
    ELSE LET cpu1 == Append(cpu, PyFloat(parts[7]))
         IN  IF Len(parts) < 10 \/ ~PyFloatOk(parts[10]) THEN Lists(FALSE, cpu1, rss)
             ELSE Lists(FALSE, cpu1, Append(rss, KbToMb(PyFloat(parts[10]))))

RECURSIVE PyMax(_)
\* max(vals): an element replaces the running maximum only when it compares greater
PyMax(vals) ==
    IF Len(vals) = 1 THEN vals[1]
    ELSE LET best == PyMax(SubSeq(vals, 1, Len(vals) - 1))
             last == vals[Len(vals)]
         IN  IF IsNum(best) /\ IsNum(last) /\ last.v > best.v THEN last ELSE best

RECURSIVE CellSum(_)
CellSum(vals) == IF vals = <<>> THEN 0 ELSE vals[1].v + CellSum(Tail(vals))

\* statistics.mean: the exact mean as the nearest float; NaN when a sample is NaN
StatMean(vals) ==
    IF \E i \in 1..Len(vals) : IsNaN(vals[i]) THEN NaN
    ELSE Num(FRound(CellSum(vals), Len(vals)))

\* round(x, places) of a float held in quanta of 1/unit: the result in units of
\* 10^-places, ties to even
PyRound(x, places, unit) ==
    IF IsNaN(x) THEN NaN
    ELSE Num(Sgn(x.v) * RoundQ(Abs(x.v) * Pow10(places), unit))

\* lines 65-68: a channel without samples reports the integer 0
MeanOf(vals, places, unit) ==
    IF vals # <<>> THEN PyRound(StatMean(vals), places, unit) ELSE IntCell(0)

PeakOf(vals, places, unit) ==
    IF vals # <<>> THEN PyRound(PyMax(vals), places, unit) ELSE IntCell(0)

\* a metrics_*_stats.csv file: the part of its name between the first two "_",
\* whether the reader yields a data row, and the cell of that row under the
\* first column named like "Requests/s" (JMissing: no such column, or the cell
\* is empty)
CsvFile(level, row, rps) == [level |-> level, row |-> row, rps |-> rps]

\* parse_float (lines 14-18)
parse_float(u) == IF PyFloatOk(u) THEN PyFloat(u) ELSE None

\* line 30: the throughput_rps member of the entry
ThroughputOf(f) == IF f.rps.t = "str" /\ f.rps.s # <<>> THEN parse_float(f.rps.s) ELSE None

\* lines 22-23: int() of the name part or next() of the reader raises
CsvRaises(f) == ~PyIntOk(f.level) \/ ~f.row

\* perf[str(u)] = {...}: a known key keeps its place and takes the new entry
PerfPut(d, u, rps) ==
    IF \E i \in 1..Len(d) : d[i].users = u
    THEN [i \in 1..Len(d) |-> IF d[i].users = u THEN [users |-> u, throughput_rps |-> rps]
                               ELSE d[i]]
    ELSE Append(d, [users |-> u, throughput_rps |-> rps])

RECURSIVE PerfOf(_, _)
\* the loop of lines 21-31 over the files, from the dict d
PerfOf(files, d) ==
    IF files = <<>> THEN d
    ELSE PerfOf(Tail(files), PerfPut(d, PyInt(files[1].level), ThroughputOf(files[1])))

\* a line of perf_cycles.txt: whether it starts with a blank, and its
\* blank-separated tokens
CycLine(indent, tokens) == [indent |-> indent, tokens |-> tokens]

W_cycles == <<"c", "y", "c", "l", "e", "s">>

\* line 76: ' cycles' in ln
HasCyclesWord(ln) ==
    \E i \in 1..Len(ln.tokens) :
        /\ i > 1 \/ ln.indent
        /\ Len(ln.tokens[i]) >= Len(W_cycles)
        /\ SubSeq(ln.tokens[i], 1, Len(W_cycles)) = W_cycles

\* str.replace(',', '')
NoCommas(u) == SelectSeq(u, LAMBDA c : c # ",")

\* lines 74-81: the count of the first line holding ' cycles', None when there is
\* no such line or int() raises
TotalCycles(file) ==
    IF \A i \in 1..Len(file.lines) : ~HasCyclesWord(file.lines[i]) THEN None
    ELSE LET k == CHOOSE i \in 1..Len(file.lines) :
                      /\ HasCyclesWord(file.lines[i])
                      /\ \A j \in 1..(i - 1) : ~HasCyclesWord(file.lines[j])
             t == NoCommas(file.lines[k].tokens[1])
         IN  IF PyIntOk(t) THEN IntCell(PyInt(t)) ELSE None

\* line 82: if total_cycles
Truthy(x) == x.t \in {"int", "num"} /\ x.v # 0

\* p['throughput_rps'] or 0
OrZero(x) == IF x.t = "nan" \/ Truthy(x) THEN x ELSE Num(0)

\* line 83: max() of an empty sequence raises ValueError
CyclesRaises(file, d) == file.present /\ Truthy(TotalCycles(file)) /\ d = <<>>

\* lines 71-85
CyclesPerReq(file, d, deploy) ==
    IF ~file.present \/ ~Truthy(TotalCycles(file)) THEN None
    ELSE LET peak_rps == PyMax([i \in 1..Len(d) |-> OrZero(d[i].throughput_rps)])
         IN  IF IsNum(peak_rps) /\ peak_rps.v > 0
             THEN PyRound(Num(FDiv(FInt(TotalCycles(file).v),
                                   FMul(peak_rps.v, FAdd(deploy.v, One)))), 0, One)
             ELSE None

\* extended_summary.json: mean_cpu_pct and peak_cpu_pct in hundredths of a percent,
\* mean_rss_mb and peak_rss_mb in tenths of a MB, cycles_per_req in units
ResSummary(cpu, rss, cpr) ==
    [written |-> TRUE, cycles_per_req |-> cpr,
     mean_cpu_pct |-> MeanOf(cpu, 2, One), peak_cpu_pct |-> PeakOf(cpu, 2, One),
     mean_rss_mb |-> MeanOf(rss, 1, MbOne), peak_rss_mb |-> PeakOf(rss, 1, MbOne)]

\* the log read when pidstat_raw.txt is tried first
LogChoice_pidstat_first(d, p) ==
    IF p.present THEN "pidstat" ELSE IF d.present THEN "docker" ELSE "none"

\* lines 38 and 54: the if / elif over the two os.path.isfile tests
LogChoice(d, p) ==
    IF d.present THEN "docker" ELSE IF p.present THEN "pidstat" ELSE "none"

NoSummary ==
    [written |-> FALSE, cycles_per_req |-> None,
     mean_cpu_pct |-> NaN, peak_cpu_pct |-> NaN, mean_rss_mb |-> NaN, peak_rss_mb |-> NaN]

----------------------------------------------------------------------------
(* Specification Spec: main on every bounded choice of run directories *)

RunLists(max) == UNION {[1..n -> DirIds] : n \in 1..max}

CiIdle == ci_x = <<>> /\ ci_out = NoOut

AggIdle == ds_file = File("absent", <<>>) /\ ds_out = Raised

ExtIdle == ext_file = ExtNonObject("absent") /\ ext_out = ExtResult("none", NoOps, <<>>)

ResIdle ==
    /\ docker_log = AbsentLog /\ pidstat_log = AbsentLog
    /\ csv_files = <<>> /\ perf_dict = <<>> /\ cycles_file = AbsentLog /\ deploy_s = Num(0)
    /\ opened = {} /\ res_i = 0
    /\ cpu_vals = <<>> /\ rss_vals = <<>>
    /\ summary = NoSummary

EvalIdle ==
    /\ ev_script = "alpaca" /\ ev_rows = <<>> /\ ev_i = 0
    /\ ev_results = <<>> /\ ev_written = FALSE

PipeIdle ==
    /\ args = [bare |-> <<>>, ctn |-> <<>>]
    /\ env_i = 1 /\ ridx = 0
    /\ ds_rows = <<>> /\ ops_rows = <<>> /\ perf_rows = <<>>
    /\ frames = [env \in EnvSet |-> NoFrames]
    /\ per_run_index = <<>> /\ ds_summary = <<>> /\ wide_rows = <<>>
    /\ lines = [env \in EnvSet |-> NoLine]
    /\ ops_all = <<>>

Init ==
    /\ pc = "collect"
    /\ args \in {[bare |-> b, ctn |-> c] : b \in RunLists(MaxBareRuns), c \in RunLists(MaxCtnRuns)}
    /\ env_i = 1 /\ ridx = 0
    /\ ds_rows = <<>> /\ ops_rows = <<>> /\ perf_rows = <<>>
    /\ frames = [env \in EnvSet |-> NoFrames]
    /\ per_run_index = <<>> /\ ds_summary = <<>> /\ wide_rows = <<>>
    /\ lines = [env \in EnvSet |-> NoLine]
    /\ ops_all = <<>>
    /\ CiIdle
    /\ AggIdle
    /\ ExtIdle
    /\ ResIdle
    /\ EvalIdle

Next ==
    \/ CollectRun
    \/ CollectRaise
    \/ CollectReturn
    \/ WriteIndex
    \/ WriteSummary
    \/ WriteWide
    \/ PerLoadCurves
    \/ WriteOps

Spec == Init /\ [][Next]_vars

----------------------------------------------------------------------------
(* Specification SpecCi: ci95 applied to every bounded sample list *)

\* per-run sample values: missing, 0.5, 3.5, 100.0, 200.0
SampleVals == {NaN, Num(One \div 2), Num((7 * One) \div 2), Num(100 * One), Num(200 * One)}

SampleLists == UNION {[1..n -> SampleVals] : n \in 0..MaxSamples}

InitCi ==
    /\ pc = "ci_call"
    /\ ci_x \in SampleLists
    /\ ci_out = NoOut
    /\ AggIdle
    /\ PipeIdle
    /\ ExtIdle
    /\ ResIdle
    /\ EvalIdle

Ci95Call ==
    /\ pc = "ci_call"
    /\ ci_out' = ci95(ci_x)
    /\ pc' = "ci_done"
    /\ UNCHANGED <<ci_x, aggVars, pipeVars, toolVars>>

NextCi == Ci95Call

SpecCi == InitCi /\ [][NextCi]_vars

----------------------------------------------------------------------------
(* Specification SpecAgg: agg_dataset_file applied to every bounded file *)

InitAgg ==
    /\ pc = "agg_call"
    /\ ds_file \in DatasetFiles
    /\ ds_out = Raised
    /\ CiIdle
    /\ PipeIdle
    /\ ExtIdle
    /\ ResIdle
    /\ EvalIdle

AggDatasetFileCall ==
    /\ pc = "agg_call"
    /\ ds_out' = agg_dataset_file(ds_file)
    /\ pc' = "agg_done"
    /\ UNCHANGED <<ds_file, ciVars, pipeVars, toolVars>>

NextAgg == AggDatasetFileCall

SpecAgg == InitAgg /\ [][NextAgg]_vars

----------------------------------------------------------------------------
(* Specification SpecExt: agg_extended_file applied to every bounded file *)

\* keys of per_load: "10", "050", " 7 ", "x", "1.5", ""
LoadKeys == {<<"1", "0">>, <<"0", "5", "0">>, <<" ", "7", " ">>, <<"x">>, <<"1", ".", "5">>, <<>>}

\* values of per_load entries: complete, without throughput, empty, null, a number
LoadValues ==
    {LoadRec(Num(100 * One), Num((7 * One) \div 2)), LoadRec(Num(200 * One), None),
     LoadRec(Missing, Missing), LoadNonObject("null"), LoadNonObject("number")}

LoadEntries == {LoadEntry(u, rec) : u \in LoadKeys, rec \in LoadValues}

\* an object never holds a key twice
DistinctKeys(pl) == \A i, j \in 1..Len(pl) : pl[i].key = pl[j].key => i = j

ExtFiles ==
    {ExtNonObject(kind) : kind \in FileKinds \ {"object"}}
      \cup {ExtFile("object", ops, pl_kind, <<>>) :
              ops \in {NoOps, OpsFull(One, 100 * One)},
              pl_kind \in {"missing", "null", "list", "number", "string"}}
      \cup {ExtFile("object", OpsFull(One, 100 * One), "object", pl) :
              pl \in {p \in UNION {[1..n -> LoadEntries] : n \in 0..MaxLoadEntries} :
                        DistinctKeys(p)}}

InitExt ==
    /\ pc = "ext_call"
    /\ ext_file \in ExtFiles
    /\ ext_out = ExtResult("none", NoOps, <<>>)
    /\ CiIdle
    /\ AggIdle
    /\ PipeIdle
    /\ ResIdle
    /\ EvalIdle

AggExtendedFileCall ==
    /\ pc = "ext_call"
    /\ ext_out' = agg_extended_file(ext_file)
    /\ pc' = "ext_done"
    /\ UNCHANGED <<ext_file, ciVars, aggVars, pipeVars, resVars, evalVars>>

NextExt == AggExtendedFileCall

SpecExt == InitExt /\ [][NextExt]_vars

----------------------------------------------------------------------------
(* Specification SpecRes: aggregate_extended.py on every bounded pair of   *)
(* resource logs                                                           *)

\* the texts 12.5%, 7%, nan%, -5%, 256MiB / 512MiB, 512kB / 1GiB, 1GiB / 2GiB, -- / --
S_12_5pct == <<"1", "2", ".", "5", "%">>
S_7pct == <<"7", "%">>
S_nanpct == <<"n", "a", "n", "%">>
S_neg5pct == <<"-", "5", "%">>
S_256MiB == <<"2", "5", "6", "M", "i", "B", " ", "/", " ", "5", "1", "2", "M", "i", "B">>
S_512kB == <<"5", "1", "2", "k", "B", " ", "/", " ", "1", "G", "i", "B">>
S_1GiB == <<"1", "G", "i", "B", " ", "/", " ", "2", "G", "i", "B">>
S_dashes == <<"-", "-", " ", "/", " ", "-", "-">>

\* the lines of docker_stats_raw.json: a banner, a truncated record, a record
\* without cpu, three complete records (MiB, kB, GiB), a record with an unmatched
\* mem, a record with cpu "nan%", and a record with a negative cpu and a number
\* under mem
DockerLines ==
    {DockerLine(FALSE, FALSE, JMissing, JMissing),
     DockerLine(TRUE, FALSE, JMissing, JMissing),
     DockerLine(TRUE, TRUE, JMissing, JStr(S_256MiB)),
     DockerLine(TRUE, TRUE, JStr(S_12_5pct), JStr(S_256MiB)),
     DockerLine(TRUE, TRUE, JStr(S_7pct), JStr(S_512kB)),
     DockerLine(TRUE, TRUE, JStr(S_12_5pct), JStr(S_1GiB)),
     DockerLine(TRUE, TRUE, JStr(S_7pct), JStr(S_dashes)),
     DockerLine(TRUE, TRUE, JStr(S_nanpct), JStr(S_256MiB)),
     DockerLine(TRUE, TRUE, JStr(S_neg5pct), JNumber)}

\* columns of pidstat_raw.txt: a time, a filler, 7.0, 204800, "-", %CPU, Average:
T_time == <<"1", "2", ":", "0", "0">>
T_zero == <<"0">>
T_7_0 == <<"7", ".", "0">>
T_204800 == <<"2", "0", "4", "8", "0", "0">>
T_dash == <<"-">>
T_pctCPU == <<"%", "C", "P", "U">>
T_Average == <<"A", "v", "e", "r", "a", "g", "e", ":">>

\* a row of ten columns with the given first, %CPU and RSS columns
PidstatRow(first, c, r) == <<first, T_zero, T_zero, T_zero, T_zero, T_zero, c, T_zero, T_zero, r>>

\* the lines of pidstat_raw.txt: blank, the header, an average row, a data row,
\* a row cut after the %CPU column, a row with "-" as RSS, a row with "-" as %CPU
PidstatLines ==
    {<<>>,
     PidstatRow(T_time, T_pctCPU, T_zero),
     PidstatRow(T_Average, T_7_0, T_204800),
     PidstatRow(T_time, T_7_0, T_204800),
     SubSeq(PidstatRow(T_time, T_7_0, T_204800), 1, 7),
     PidstatRow(T_time, T_7_0, T_dash),
     PidstatRow(T_time, T_dash, T_204800)}

LogsOf(lns, n) == {AbsentLog} \cup {Log(TRUE, l) : l \in UNION {[1..k -> lns] : k \in 0..n}}

\* the two logs of a run directory, with at most MaxLogLines lines together
LogPairs ==
    {p \in LogsOf(DockerLines, MaxLogLines) \X LogsOf(PidstatLines, MaxLogLines) :
        Len(p[1].lines) + Len(p[2].lines) <= MaxLogLines}

\* the texts 10, 50, abc, 3.5, 7, 0, N/A of the load-level files
L_10 == <<"1", "0">>
L_50 == <<"5", "0">>
L_abc == <<"a", "b", "c">>
R_3_5 == <<"3", ".", "5">>
R_7 == <<"7">>
R_0 == <<"0">>
R_NA == <<"N", "/", "A">>

\* the load-level files: level 10 with throughput 3.5, 7, 0, N/A or no such
\* column, level 50 with 7 or N/A, a file named metrics_abc_stats.csv, and a
\* file without a data row
CsvKinds ==
    {CsvFile(L_10, TRUE, JStr(r)) : r \in {R_3_5, R_7, R_0, R_NA}}
      \cup {CsvFile(L_10, TRUE, JMissing)}
      \cup {CsvFile(L_50, TRUE, JStr(r)) : r \in {R_7, R_NA}}
      \cup {CsvFile(L_abc, TRUE, JStr(R_7)), CsvFile(L_10, FALSE, JMissing)}

CsvLists == UNION {[1..n -> CsvKinds] : n \in 0..MaxCsvFiles}

\* the tokens 1,000  2,000  <not  -8  supported>  Performance  cycles  cycles:u  instructions
K_1000 == <<"1", ",", "0", "0", "0">>
K_2000 == <<"2", ",", "0", "0", "0">>
K_not == <<"<", "n", "o", "t">>
K_neg8 == <<"-", "8">>
K_supported == <<"s", "u", "p", "p", "o", "r", "t", "e", "d", ">">>
K_Performance == <<"P", "e", "r", "f", "o", "r", "m", "a", "n", "c", "e">>
K_cycles_u == W_cycles \o <<":", "u">>
K_instructions == <<"i", "n", "s", "t", "r", "u", "c", "t", "i", "o", "n", "s">>

CycCount(count) == CycLine(TRUE, <<count, W_cycles>>)
CycBanner == CycLine(TRUE, <<K_Performance>>)

\* perf_cycles.txt: absent, empty, without a cycles line, with a count (after a
\* banner, with the :u suffix, before a second count), with "<not supported>",
\* with the count 0, with a negative count
CyclesFiles ==
    {AbsentLog, Log(TRUE, <<>>),
     Log(TRUE, <<CycBanner, CycLine(TRUE, <<K_2000, K_instructions>>)>>),
     Log(TRUE, <<CycBanner, CycCount(K_1000)>>),
     Log(TRUE, <<CycLine(TRUE, <<K_1000, K_cycles_u>>)>>),
     Log(TRUE, <<CycCount(K_1000), CycCount(K_2000)>>),
     Log(TRUE, <<CycLine(TRUE, <<K_not, K_supported, W_cycles>>)>>),
     Log(TRUE, <<CycCount(R_0)>>),
     Log(TRUE, <<CycCount(K_neg8)>>)}

\* the deploy_s argument: 0 and 1.5 seconds
DeployTimes == {Num(0), Num((3 * One) \div 2)}

\* the run directories: every bounded pair of resource logs without load-level
\* and cycles files, and every bounded choice of load-level files, cycles file
\* and deploy time without resource logs
InitRes ==
    /\ pc = "ae_start"
    /\ \/ /\ \E p \in LogPairs : docker_log = p[1] /\ pidstat_log = p[2]
          /\ csv_files = <<>> /\ cycles_file = AbsentLog /\ deploy_s = Num(0)
       \/ /\ docker_log = AbsentLog /\ pidstat_log = AbsentLog
          /\ csv_files \in CsvLists
          /\ cycles_file \in CyclesFiles
          /\ deploy_s \in DeployTimes
    /\ perf_dict = <<>>
    /\ opened = {} /\ res_i = 0
    /\ cpu_vals = <<>> /\ rss_vals = <<>>
    /\ summary = NoSummary
    /\ CiIdle
    /\ AggIdle
    /\ PipeIdle
    /\ ExtIdle
    /\ EvalIdle

\* lines 20-31: every load-level file is read into perf
ReadLoadCsvs ==
    /\ pc = "ae_start"
    /\ \A i \in 1..Len(csv_files) : ~CsvRaises(csv_files[i])
    /\ perf_dict' = PerfOf(csv_files, <<>>)
    /\ pc' = "res_start"
    /\ UNCHANGED <<docker_log, pidstat_log, opened, res_i, cpu_vals, rss_vals, summary,
                   csv_files, cycles_file, deploy_s,
                   ciVars, aggVars, pipeVars, extVars, evalVars>>

\* lines 22-23: int() raises ValueError on the name or next() raises
\* StopIteration on a file without a data row; the script ends with a traceback
ReadLoadCsvsRaise ==
    /\ pc = "ae_start"
    /\ \E i \in 1..Len(csv_files) : CsvRaises(csv_files[i])
    /\ pc' = "res_raised"
    /\ UNCHANGED <<resVars, ciVars, aggVars, pipeVars, extVars, evalVars>>

\* line 38: docker_stats_raw.json is a file
OpenDocker ==
    /\ pc = "res_start"
    /\ LogChoice(docker_log, pidstat_log) = "docker"
    /\ opened' = opened \cup {"docker"}
    /\ pc' = "docker"
    /\ UNCHANGED <<docker_log, pidstat_log, res_i, cpu_vals, rss_vals, summary, cycVars,
                   ciVars, aggVars, pipeVars, extVars, evalVars>>

\* line 54: it is not, and pidstat_raw.txt is a file
OpenPidstat ==
    /\ pc = "res_start"
    /\ LogChoice(docker_log, pidstat_log) = "pidstat"
    /\ opened' = opened \cup {"pidstat"}
    /\ pc' = "pidstat"
    /\ UNCHANGED <<docker_log, pidstat_log, res_i, cpu_vals, rss_vals, summary, cycVars,
                   ciVars, aggVars, pipeVars, extVars, evalVars>>

\* neither log is a file
NoResourceLog ==
    /\ pc = "res_start"
    /\ LogChoice(docker_log, pidstat_log) = "none"
    /\ pc' = "res_dump"
    /\ UNCHANGED <<resVars, ciVars, aggVars, pipeVars, extVars, evalVars>>

\* one iteration of the loop over the docker log
DockerLineStep ==
    /\ pc = "docker"
    /\ res_i < Len(docker_log.lines)
    /\ LET r == DockerStep(docker_log.lines[res_i + 1], cpu_vals, rss_vals)
       IN  /\ ~r.abort
           /\ cpu_vals' = r.cpu
           /\ rss_vals' = r.rss
    /\ res_i' = res_i + 1
    /\ UNCHANGED <<pc, docker_log, pidstat_log, opened, summary, cycVars,
                   ciVars, aggVars, pipeVars, extVars, evalVars>>

\* line 42: json.loads raises JSONDecodeError outside the try; the script ends
\* with a traceback and writes nothing
DockerLineRaise ==
    /\ pc = "docker"
    /\ res_i < Len(docker_log.lines)
    /\ DockerStep(docker_log.lines[res_i + 1], cpu_vals, rss_vals).abort
    /\ pc' = "res_raised"
    /\ UNCHANGED <<resVars, ciVars, aggVars, pipeVars, extVars, evalVars>>

\* one iteration of the loop over the pidstat log
PidstatLineStep ==
    /\ pc = "pidstat"
    /\ res_i < Len(pidstat_log.lines)
    /\ LET r == PidstatStep(pidstat_log.lines[res_i + 1], cpu_vals, rss_vals)
       IN  /\ cpu_vals' = r.cpu
           /\ rss_vals' = r.rss
    /\ res_i' = res_i + 1
    /\ UNCHANGED <<pc, docker_log, pidstat_log, opened, summary, cycVars,
                   ciVars, aggVars, pipeVars, extVars, evalVars>>

\* the open log is exhausted
LogEnd ==
    /\ \/ pc = "docker" /\ res_i = Len(docker_log.lines)
       \/ pc = "pidstat" /\ res_i = Len(pidstat_log.lines)
    /\ pc' = "res_dump"
    /\ UNCHANGED <<resVars, ciVars, aggVars, pipeVars, extVars, evalVars>>

\* lines 65-103: the aggregates and cycles_per_req are computed and the summary
\* is written
DumpSummary ==
    /\ pc = "res_dump"
    /\ ~CyclesRaises(cycles_file, perf_dict)
    /\ summary' = ResSummary(cpu_vals, rss_vals, CyclesPerReq(cycles_file, perf_dict, deploy_s))
    /\ pc' = "res_done"
    /\ UNCHANGED <<docker_log, pidstat_log, opened, res_i, cpu_vals, rss_vals, cycVars,
                   ciVars, aggVars, pipeVars, extVars, evalVars>>

\* line 83: max() raises ValueError on the empty dict; the script ends with a
\* traceback and writes nothing
CyclesRaise ==
    /\ pc = "res_dump"
    /\ CyclesRaises(cycles_file, perf_dict)
    /\ pc' = "res_raised"
    /\ UNCHANGED <<resVars, ciVars, aggVars, pipeVars, extVars, evalVars>>

NextRes ==
    \/ ReadLoadCsvs
    \/ ReadLoadCsvsRaise
    \/ OpenDocker
    \/ OpenPidstat
    \/ NoResourceLog
    \/ DockerLineStep
    \/ DockerLineRaise
    \/ PidstatLineStep
    \/ LogEnd
    \/ DumpSummary
    \/ CyclesRaise

SpecRes == InitRes /\ [][NextRes]_vars

----------------------------------------------------------------------------
(* Specification SpecEval: the evaluators evaluate_alpaca.py,              *)
(* evaluate_squad.py and evaluate_boolq.py against the HTTP endpoint.      *)
(* The endpoint is an external collaborator: it may answer a request in    *)
(* any way, or never.                                                      *)

Evaluators == {"alpaca", "squad", "boolq"}

\* the timeout argument of requests.post: 180 s in evaluate_squad.py, 60 s in
\* evaluate_boolq.py, none in evaluate_alpaca.py
HasTimeout(script) == script \in {"squad", "boolq"}

\* evaluate_squad.py skips an example without answers; the other two use every row
ExampleRows(script) ==
    IF script = "squad" THEN UNION {[1..n -> BOOLEAN] : n \in 0..MaxExamples}
    ELSE {[i \in 1..n |-> TRUE] : n \in 0..MaxExamples}

InitEval ==
    /\ pc = "ev_loop"
    /\ ev_script \in Evaluators
    /\ ev_rows \in ExampleRows(ev_script)
    /\ ev_i = 0
    /\ ev_results = <<>>
    /\ ev_written = FALSE
    /\ CiIdle
    /\ AggIdle
    /\ PipeIdle
    /\ ExtIdle
    /\ ResIdle

\* the record of a scored example, and the error marker (latency null, an error field)
ScoredRecord == [error |-> FALSE, latency |-> Num(100 * One)]
ErrorRecord == [error |-> TRUE, latency |-> None]

\* evaluate_squad.py: if not answers: continue
SkipExample ==
    /\ pc = "ev_loop"
    /\ ev_i < Len(ev_rows)
    /\ ~ev_rows[ev_i + 1]
    /\ ev_i' = ev_i + 1
    /\ UNCHANGED <<pc, ev_script, ev_rows, ev_results, ev_written,
                   ciVars, aggVars, pipeVars, extVars, resVars>>

\* requests.post is called and blocks
SendRequest ==
    /\ pc = "ev_loop"
    /\ ev_i < Len(ev_rows)
    /\ ev_rows[ev_i + 1]
    /\ pc' = "ev_wait"
    /\ UNCHANGED <<evalVars, ciVars, aggVars, pipeVars, extVars, resVars>>

\* the endpoint answers 200 with a JSON object whose text is a string
ReplyScored ==
    /\ pc = "ev_wait"
    /\ ev_results' = Append(ev_results, ScoredRecord)
    /\ ev_i' = ev_i + 1
    /\ pc' = "ev_loop"
    /\ UNCHANGED <<ev_script, ev_rows, ev_written, ciVars, aggVars, pipeVars, extVars, resVars>>

\* the request fails inside the try: the connection is refused or reset, the
\* status is not 200, the body is no JSON; in evaluate_squad.py and
\* evaluate_boolq.py also a text that is no string (.strip() raises inside the try)
ReplyError ==
    /\ pc = "ev_wait"
    /\ ev_results' = Append(ev_results, ErrorRecord)
    /\ ev_i' = ev_i + 1
    /\ pc' = "ev_loop"
    /\ UNCHANGED <<ev_script, ev_rows, ev_written, ciVars, aggVars, pipeVars, extVars, resVars>>

\* evaluate_alpaca.py: the answer is 200 with a text that is no string (null, a
\* number); score(output, reference) stands after the try and output.split() raises
ReplyRaise ==
    /\ pc = "ev_wait"
    /\ ev_script = "alpaca"
    /\ pc' = "ev_raised"
    /\ UNCHANGED <<evalVars, ciVars, aggVars, pipeVars, extVars, resVars>>

\* the timeout of requests.post expires: requests raises Timeout inside the try
RequestTimeout ==
    /\ pc = "ev_wait"
    /\ HasTimeout(ev_script)
    /\ ev_results' = Append(ev_results, ErrorRecord)
    /\ ev_i' = ev_i + 1
    /\ pc' = "ev_loop"
    /\ UNCHANGED <<ev_script, ev_rows, ev_written, ciVars, aggVars, pipeVars, extVars, resVars>>

\* the loop is over: json.dump(results, f)
WriteResults ==
    /\ pc = "ev_loop"
    /\ ev_i = Len(ev_rows)
    /\ ev_written' = TRUE
    /\ pc' = "ev_done"
    /\ UNCHANGED <<ev_script, ev_rows, ev_i, ev_results, ciVars, aggVars, pipeVars, extVars, resVars>>

NextEval ==
    \/ SkipExample
    \/ SendRequest
    \/ ReplyScored
    \/ ReplyError
    \/ ReplyRaise
    \/ RequestTimeout
    \/ WriteResults

\* the evaluator takes its own steps; nothing makes the endpoint answer
SpecEval ==
    /\ InitEval
    /\ [][NextEval]_vars
    /\ WF_vars(SkipExample)
    /\ WF_vars(SendRequest)
    /\ WF_vars(RequestTimeout)
    /\ WF_vars(WriteResults)

----------------------------------------------------------------------------
(* Properties of ci95 (SpecCi) *)

RECURSIVE SumExact(_)
SumExact(s) == IF s = <<>> THEN 0 ELSE s[1] + SumExact(Tail(s))

RECURSIVE SumAbs(_)
SumAbs(s) == IF s = <<>> THEN 0 ELSE Abs(s[1]) + SumAbs(Tail(s))

\* m is the arithmetic mean of the non-empty list xs, up to the rounding of the
\* Len(xs) - 1 additions and of the division
IsMeanOf(m, xs) ==
    /\ xs # <<>>
    /\ \E i \in 1..Len(xs) : xs[i] <= m
    /\ \E i \in 1..Len(xs) : m <= xs[i]
    /\ 2 * Abs(Len(xs) * m - SumExact(xs))
          <= Len(xs) * Ulp(m) + 2 * (Len(xs) - 1) * Ulp(SumAbs(xs))

CiKept == DropNaN(ci_x)

\* C1 as stated: with n >= 2 kept samples, ci_low <= mean <= ci_high, mean is the
\* mean of the kept samples, and ci_high - mean equals mean - ci_low exactly.
C1_Original ==
    (pc = "ci_done" /\ Len(CiKept) >= 2) =>
        /\ IsNum(ci_out.m) /\ IsNum(ci_out.lo) /\ IsNum(ci_out.hi)
        /\ IsMeanOf(ci_out.m.v, CiKept)
        /\ ci_out.lo.v <= ci_out.m.v /\ ci_out.m.v <= ci_out.hi.v
        /\ ci_out.hi.v - ci_out.m.v = ci_out.m.v - ci_out.lo.v

\* C1 amended: with n >= 2 kept samples, ci_low <= mean <= ci_high, mean is the
\* mean of the kept samples only, and the two half-widths ci_high - mean and
\* mean - ci_low differ by at most the rounding of the two end points (half a unit
\* in the last place of each).
C1_SymmetricUpToRounding ==
    (pc = "ci_done" /\ Len(CiKept) >= 2) =>
        /\ IsNum(ci_out.m) /\ IsNum(ci_out.lo) /\ IsNum(ci_out.hi)
        /\ IsMeanOf(ci_out.m.v, CiKept)
        /\ ci_out.lo.v <= ci_out.m.v /\ ci_out.m.v <= ci_out.hi.v
        /\ 2 * Abs((ci_out.hi.v - ci_out.m.v) - (ci_out.m.v - ci_out.lo.v))
              <= Ulp(ci_out.hi.v) + Ulp(ci_out.lo.v)

\* ci95 has returned for a list with a missing entry and two different kept samples
C1_Witness ==
    /\ pc = "ci_done"
    /\ Len(CiKept) >= 2
    /\ Len(ci_x) > Len(CiKept)
    /\ ci_out.lo.v < ci_out.m.v /\ ci_out.m.v < ci_out.hi.v

\* C2: when exactly one numeric sample is kept, mean is that sample and
\* ci_low = mean = ci_high, however many missing entries came with it.
C2_SingleSample ==
    (pc = "ci_done" /\ Len(CiKept) = 1) =>
        /\ ci_out.m = Num(CiKept[1])
        /\ ci_out.lo = ci_out.m
        /\ ci_out.hi = ci_out.m

\* ci95 has returned for one sample accompanied by two missing entries
C2_Witness ==
    /\ pc = "ci_done"
    /\ Len(CiKept) = 1
    /\ Len(ci_x) = 3
    /\ IsNum(ci_out.m)

----------------------------------------------------------------------------
(* Properties of agg_dataset_file (SpecAgg) *)

\* the file is absent, unreadable, not parseable, not a list, or an empty list
FileWithoutData(file) ==
    \/ file.k \in {"absent", "unreadable", "garbage"}
    \/ file.k \in {"null", "number", "string", "object"}
    \/ file.k = "list" /\ file.items = <<>>

AllNoData(out) ==
    IsNaN(out.bleu) /\ IsNaN(out.rouge) /\ IsNaN(out.pass1) /\ IsNaN(out.latency_ms)

\* C4: count = 0 exactly for a file that is absent, unreadable, unparseable, not a
\* list or an empty list; then the four means are the no-data marker (not zero) and
\* nothing is raised.
C4_CountZeroIffNoData ==
    pc = "agg_done" =>
        /\ FileWithoutData(ds_file) =>
              ~ds_out.raised /\ ds_out.count = 0 /\ AllNoData(ds_out)
        /\ (~ds_out.raised /\ ds_out.count = 0) => FileWithoutData(ds_file)

\* agg_dataset_file has returned for a file whose text is not JSON
C4_Witness ==
    /\ pc = "agg_done"
    /\ ds_file.k = "garbage"
    /\ ~ds_out.raised /\ ds_out.count = 0 /\ AllNoData(ds_out)

\* every element is an object whose metric fields are missing, null, NaN or a number
RecordsWellFormed(file) ==
    /\ file.k = "list" /\ file.items # <<>>
    /\ \A i \in 1..Len(file.items) :
          /\ file.items[i].k = "object"
          /\ \A key \in EvalKeys : file.items[i].f[key].t \in {"missing", "none", "nan", "num"}

\* the numbers stored under key, in file order
NumbersUnder(file, key) ==
    LET have == SelectSeq(file.items, LAMBDA d : d.f[key].t = "num")
    IN  [i \in 1..Len(have) |-> have[i].f[key].v]

MeanOverPresent(out, file, key) ==
    IF NumbersUnder(file, key) = <<>> THEN IsNaN(out)
    ELSE IsNum(out) /\ IsMeanOf(out.v, NumbersUnder(file, key))

\* C5: for a non-empty list of records, each mean is the arithmetic mean over
\* exactly the records that hold a number under that field (records lacking it are
\* left out, not counted as zero), and count is the number of records.
C5_MeanOverPresentFields ==
    (pc = "agg_done" /\ RecordsWellFormed(ds_file)) =>
        /\ ~ds_out.raised
        /\ ds_out.count = Len(ds_file.items)
        /\ MeanOverPresent(ds_out.bleu, ds_file, "bleu")
        /\ MeanOverPresent(ds_out.rouge, ds_file, "rouge")
        /\ MeanOverPresent(ds_out.pass1, ds_file, "pass@1")
        /\ MeanOverPresent(ds_out.latency_ms, ds_file, "latency")

\* three records, latency 100, 200 and null: latency_ms is 150 and count is 3
C5_Witness ==
    /\ pc = "agg_done"
    /\ RecordsWellFormed(ds_file)
    /\ Len(ds_file.items) = 3
    /\ NumbersUnder(ds_file, "latency") = <<100 * One, 200 * One>>
    /\ ds_out.latency_ms = Num(150 * One)
    /\ ds_out.count = 3

----------------------------------------------------------------------------
(* Properties of collect_runs and main (Spec) *)

\* collect_runs has returned for environment number e
EnvDone(e) == e < env_i \/ pc \in {"index", "summary", "wide", "perf", "ops", "done"}

SummaryWritten == pc \in {"wide", "perf", "ops", "done"}

CurvesBuilt == pc \in {"ops", "done"}

EnvIndex(env) == CHOOSE e \in 1..Len(ENVS) : ENVS[e] = env

DatasetFile(rdir, ds) ==
    LET j == CHOOSE i \in 1..Len(DatasetFileNames) : DatasetFileNames[i].ds_name = ds
    IN  RunDirs[rdir].files[DatasetFileNames[j].fname]

\* the dataset-eval key behind a summary metric
KeyOfMetric(metric) ==
    CASE metric = "bleu" -> "bleu" [] metric = "rouge" -> "rouge"
      [] metric = "pass1" -> "pass@1" [] metric = "latency_ms" -> "latency"

\* the file of the run holds no number under the metric's key
RunLacksValue(rdir, ds, metric) ==
    \/ FileWithoutData(DatasetFile(rdir, ds))
    \/ NumbersUnder(DatasetFile(rdir, ds), KeyOfMetric(metric)) = <<>>

\* no run of the environment contributes a value to the group
GroupWithoutSamples(ds, env, metric) ==
    \A i \in 1..Len(EnvDirs(EnvIndex(env))) :
        RunLacksValue(EnvDirs(EnvIndex(env))[i], ds, metric)

\* C3: the datasets_summary row of a (dataset, environment, metric) group with zero
\* contributing samples carries the no-data marker in mean, ci_low, ci_high and n.
C3_NoDataRowAllFour ==
    SummaryWritten =>
        \A i \in 1..Len(ds_summary) :
            GroupWithoutSamples(ds_summary[i].dataset, ds_summary[i].env, ds_summary[i].metric) =>
                /\ IsNaN(ds_summary[i].mean)
                /\ IsNaN(ds_summary[i].ci_low)
                /\ IsNaN(ds_summary[i].ci_high)
                /\ IsNaN(ds_summary[i].n)

\* C6: processing never aborts, whatever is missing or malformed in the run
\* directories, and every run directory yields exactly three dataset rows, each
\* decided by its own file alone.
C6_NeverAborts ==
    /\ pc # "raised"
    /\ \A e \in 1..Len(ENVS) : EnvDone(e) =>
          \A i \in 1..Len(EnvDirs(e)) :
              LET mine == SelectSeq(frames[ENVS[e]].ds, LAMBDA r : r.run = i)
              IN  /\ Len(mine) = 3
                  /\ \A j \in 1..3 :
                        LET own == agg_dataset_file(DatasetFile(EnvDirs(e)[i], DATASETS[j]))
                        IN  /\ mine[j].dataset = DATASETS[j]
                            /\ mine[j].count = own.count
                            /\ mine[j].bleu = own.bleu /\ mine[j].rouge = own.rouge
                            /\ mine[j].pass1 = own.pass1
                            /\ mine[j].latency_ms = own.latency_ms

\* the extended summary of the run directory exists and parses to an object
ExtIsObject(rdir) == RunDirs[rdir].ext.k = "object"

RowsOfRun(rows, i) == SelectSeq(rows, LAMBDA r : r.run = i)

\* C7: the operational rows of an environment are one per run directory whose
\* extended_summary.json exists and parses to an object; a run without it has no
\* operational row and no per-load rows, keeps its three dataset rows and its own
\* run index, and raises nothing.
C7_OpsRowsCountObjects ==
    /\ \A e \in 1..Len(ENVS) : EnvDone(e) =>
          LET f == frames[ENVS[e]]
              dirs == EnvDirs(e)
          IN  /\ Len(f.ops) = Cardinality({i \in 1..Len(dirs) : ExtIsObject(dirs[i])})
              /\ \A i \in 1..Len(dirs) :
                    /\ Len(RowsOfRun(f.ds, i)) = 3
                    /\ \A j \in 1..3 : RowsOfRun(f.ds, i)[j].run_dir = dirs[i]
                    /\ IF ExtIsObject(dirs[i])
                       THEN /\ Len(RowsOfRun(f.ops, i)) = 1
                            /\ RowsOfRun(f.ops, i)[1].run_dir = dirs[i]
                       ELSE /\ RowsOfRun(f.ops, i) = <<>>
                            /\ RowsOfRun(f.perf, i) = <<>>
    /\ pc = "raised" =>
          LET dir == RunDirs[EnvDirs(env_i)[ridx + 1]]
          IN  \/ \E j \in 1..Len(DatasetFileNames) :
                    /\ dir.files[DatasetFileNames[j].fname].k = "list"
                    /\ ~RecordsWellFormed(dir.files[DatasetFileNames[j].fname])
              \/ /\ dir.ext.k = "object"
                 /\ \/ dir.ext.pl_k \notin {"missing", "null", "object"}
                    \/ \E i \in 1..Len(dir.ext.pl) : dir.ext.pl[i].rec.k # "object"
    /\ pc = "done" =>
          Len(ops_all) = Cardinality({i \in 1..Len(args.bare) : ExtIsObject(args.bare[i])})
                           + Cardinality({i \in 1..Len(args.ctn) : ExtIsObject(args.ctn[i])})

\* three bare-metal runs, the second without extended_summary.json: 2 rows, runs 1 and 3
C7_Witness ==
    /\ pc = "done"
    /\ Len(args.bare) = 3
    /\ ExtIsObject(args.bare[1]) /\ ExtIsObject(args.bare[3])
    /\ RunDirs[args.bare[2]].ext.k = "absent"
    /\ Len(frames["Bare-Metal"].ops) = 2
    /\ frames["Bare-Metal"].ops[1].run = 1 /\ frames["Bare-Metal"].ops[2].run = 3
    /\ Len(RowsOfRun(frames["Bare-Metal"].ds, 2)) = 3

RowsWithKey(ds, env, metric) ==
    SelectSeq(ds_summary, LAMBDA r : r.dataset = ds /\ r.env = env /\ r.metric = metric)

\* C8: the long table holds exactly one row for every combination of the fixed
\* lists, 3 x 2 x 4 = 24 rows, also for groups no run contributed to.
C8_OneRowPerCombination ==
    SummaryWritten =>
        /\ Len(ds_summary) = Len(DATASETS) * Len(ENVS) * Len(DS_METRICS)
        /\ Len(ds_summary) = 24
        /\ \A d \in 1..Len(DATASETS), e \in 1..Len(ENVS), m \in 1..Len(DS_METRICS) :
              Len(RowsWithKey(DATASETS[d], ENVS[e], DS_METRICS[m])) = 1

\* the table is written and holds the row of a group without any sample
C8_Witness ==
    /\ pc = "done"
    /\ Len(ds_summary) = 24
    /\ GroupWithoutSamples("SQuADv2", "Container", "rouge")
    /\ Len(RowsWithKey("SQuADv2", "Container", "rouge")) = 1
    /\ IsNaN(RowsWithKey("SQuADv2", "Container", "rouge")[1].mean)

\* position of the key (DATASETS[d], ENVS[e], DS_METRICS[m]) in the fixed order
KeyPosition(d, e, m) ==
    ((d - 1) * Len(ENVS) + (e - 1)) * Len(DS_METRICS) + m

\* C9: the keys of datasets_summary come in the order of the dataset list, then the
\* environment list, then the metric list, whatever the run directories are and in
\* whatever order they are given; the wide rows follow the dataset list.
C9_FixedKeyOrder ==
    /\ SummaryWritten =>
          \A d \in 1..Len(DATASETS), e \in 1..Len(ENVS), m \in 1..Len(DS_METRICS) :
              /\ KeyPosition(d, e, m) <= Len(ds_summary)
              /\ ds_summary[KeyPosition(d, e, m)].dataset = <<"Alpaca", "SQuADv2", "BoolQ">>[d]
              /\ ds_summary[KeyPosition(d, e, m)].env = <<"Bare-Metal", "Container">>[e]
              /\ ds_summary[KeyPosition(d, e, m)].metric
                    = <<"bleu", "rouge", "pass1", "latency_ms">>[m]
    /\ pc \in {"perf", "ops", "done"} =>
          [i \in 1..Len(wide_rows) |-> wide_rows[i].Dataset] = <<"Alpaca", "SQuADv2", "BoolQ">>

\* the tables are written for run directories given in an order other than that
\* of their content: a run without data first, a complete run last
C9_Witness ==
    /\ pc = "done"
    /\ Len(args.bare) >= 2
    /\ ~ExtIsObject(args.bare[1]) /\ ExtIsObject(args.bare[Len(args.bare)])
    /\ GroupWithoutSamples("Alpaca", "Container", "bleu")
    /\ ds_summary[1].dataset = "Alpaca" /\ ds_summary[24].dataset = "BoolQ"
    /\ ds_summary[24].metric = "latency_ms"

\* the per-load entries with an integer key in the extended summaries of the
\* environment's runs, run by run
ReportedEntries(env) ==
    LET dirs == EnvDirs(EnvIndex(env))
    IN  Concat([i \in 1..Len(dirs) |->
           IF ExtIsObject(dirs[i])
           THEN SelectSeq(RunDirs[dirs[i]].ext.pl, LAMBDA en : PyIntOk(en.key))
           ELSE <<>>])

ReportedLevels(env) ==
    {PyInt(ReportedEntries(env)[i].key) : i \in 1..Len(ReportedEntries(env))}

\* the numbers reported at level u under the column
ReportedNumbers(env, u, col) ==
    LET at == SelectSeq(ReportedEntries(env),
                        LAMBDA en : PyInt(en.key) = u
                                      /\ (IF col = "p95_ms" THEN en.rec.p95_ms
                                          ELSE en.rec.throughput_rps).t = "num")
    IN  [i \in 1..Len(at) |-> (IF col = "p95_ms" THEN at[i].rec.p95_ms
                               ELSE at[i].rec.throughput_rps).v]

\* (m, lo, hi) is the statistic of exactly the numbers xs
StatOver(m, lo, hi, xs) ==
    IF xs = <<>> THEN IsNaN(m) /\ IsNaN(lo) /\ IsNaN(hi)
    ELSE IF Len(xs) = 1 THEN m = Num(xs[1]) /\ lo = m /\ hi = m
    ELSE /\ IsNum(m) /\ IsNum(lo) /\ IsNum(hi)
         /\ IsMeanOf(m.v, xs)
         /\ lo.v <= m.v /\ m.v <= hi.v

CurveOver(env, col, c) ==
    /\ Len(c.means) = Len(lines[env].users)
    /\ Len(c.lows) = Len(lines[env].users)
    /\ Len(c.highs) = Len(lines[env].users)
    /\ \A i \in 1..Len(lines[env].users) :
          StatOver(c.means[i], c.lows[i], c.highs[i],
                   ReportedNumbers(env, lines[env].users[i], col))

\* C10: within an environment the levels of the curve are the union of the levels
\* its runs reported, each once and ascending, and the statistic at a level is
\* taken over exactly the values reported at that level.
C10_LevelsAreUnion ==
    CurvesBuilt =>
        \A e \in 1..Len(ENVS) :
            LET env == ENVS[e]
                users == lines[env].users
            IN  /\ lines[env].present <=> ReportedLevels(env) # {}
                /\ {users[i] : i \in 1..Len(users)} = ReportedLevels(env)
                /\ \A i \in 1..Len(users) - 1 : users[i] < users[i + 1]
                /\ CurveOver(env, "p95_ms", lines[env].p95)
                /\ CurveOver(env, "throughput_rps", lines[env].rps)

\* run A reports the levels 10 and 50, run B only level 10: level 10 is averaged
\* over both runs (150 from 100 and 200), level 50 over run A alone
C10_Witness ==
    /\ pc = "done"
    /\ Len(args.bare) = 2
    /\ ReportedLevels("Bare-Metal") = {10, 50}
    /\ Len(ReportedNumbers("Bare-Metal", 10, "p95_ms")) = 2
    /\ Len(ReportedNumbers("Bare-Metal", 50, "p95_ms")) = 1
    /\ lines["Bare-Metal"].users = <<10, 50>>
    /\ lines["Bare-Metal"].p95.means = <<Num(150 * One), Num(200 * One)>>
    /\ lines["Bare-Metal"].p95.lows[1].v < 150 * One
    /\ lines["Bare-Metal"].p95.lows[2] = Num(200 * One)
    /\ lines["Bare-Metal"].p95.highs[2] = Num(200 * One)

----------------------------------------------------------------------------
(* Properties of the resource monitor section (SpecRes) *)

RECURSIVE DockerFold(_)
\* the lists after the given lines of the docker log, none of which aborts
DockerFold(lns) ==
    IF lns = <<>> THEN Lists(FALSE, <<>>, <<>>)
    ELSE LET before == DockerFold(SubSeq(lns, 1, Len(lns) - 1))
         IN  DockerStep(lns[Len(lns)], before.cpu, before.rss)

\* the pidstat log holds a row that would give a sample
PidstatHasSample(log) ==
    \E i \in 1..Len(log.lines) : PidstatStep(log.lines[i], <<>>, <<>>).cpu # <<>>

ResLoopOver == pc \in {"res_dump", "res_done"}

\* C11: whenever docker_stats_raw.json exists, pidstat_raw.txt is never opened and
\* the samples are exactly those of the docker lines read so far, also when they
\* are none; pidstat_raw.txt is opened only when docker_stats_raw.json is absent.
C11_StructuredLogTakesPrecedence ==
    /\ docker_log.present => "pidstat" \notin opened
    /\ "pidstat" \in opened => ~docker_log.present /\ "docker" \notin opened
    /\ docker_log.present /\ pc \notin {"ae_start", "res_start"} =>
          /\ "docker" \in opened
          /\ cpu_vals = DockerFold(SubSeq(docker_log.lines, 1, res_i)).cpu
          /\ rss_vals = DockerFold(SubSeq(docker_log.lines, 1, res_i)).rss
    /\ docker_log.present /\ ResLoopOver => res_i = Len(docker_log.lines)

\* both logs exist, the pidstat log has a sample row, the docker log gave no
\* sample, and the summary is written
C11_Witness ==
    /\ pc = "res_done"
    /\ docker_log.present /\ pidstat_log.present
    /\ PidstatHasSample(pidstat_log)
    /\ cpu_vals = <<>> /\ rss_vals = <<>>
    /\ summary.written

Last(q) == q[Len(q)]

\* the part of a memory text before "/", without surrounding blanks, as the claim
\* reads it: a leading number, blanks, and what follows
MemLeading(mem) == SubSeq(BeforeSlash(mem), 1, NumPrefixLen(BeforeSlash(mem)))

MemUnitText(mem) ==
    LET part == BeforeSlash(mem)
        rest == StripLeft(SubSeq(part, NumPrefixLen(part) + 1, Len(part)), {" "})
    IN  [i \in 1..Len(rest) |-> UpperChar(rest[i])]

KiloUnits == {<<"K", "B">>, <<"K", "I", "B">>}
MegaUnits == {<<"M", "B">>, <<"M", "I", "B">>}
GigaUnits == {<<"G", "B">>, <<"G", "I", "B">>}

\* a well-formed line: a JSON object whose cpu is a decimal number followed by "%"
\* and whose mem starts with a decimal number and a unit
WellFormedLine(ln) ==
    /\ ln.brace /\ ln.json
    /\ ln.cpu.t = "str" /\ ln.cpu.s # <<>> /\ Last(ln.cpu.s) = "%"
    /\ IsDecimal(SubSeq(ln.cpu.s, 1, Len(ln.cpu.s) - 1))
    /\ ln.mem.t = "str"
    /\ IsDecimal(MemLeading(ln.mem.s))
    /\ MemUnitText(ln.mem.s) \in KiloUnits \cup MegaUnits \cup GigaUnits

\* the CPU sample of a well-formed line, in quanta of percent
CpuOfLine(ln) == Num(DecimalValue(SubSeq(ln.cpu.s, 1, Len(ln.cpu.s) - 1)))

\* the RSS sample of a well-formed line: the leading number times 1/1024, 1 or
\* 1024, in RSS quanta
RssOfLine(ln) ==
    LET val == DecimalValue(MemLeading(ln.mem.s))
        unit == MemUnitText(ln.mem.s)
    IN  IF unit \in KiloUnits THEN Num((val * MbOne) \div (One * 1024))
        ELSE IF unit \in MegaUnits THEN Num((val * MbOne) \div One)
        ELSE Num((val * MbOne * 1024) \div One)

\* the line {"cpu":"12.5%","mem":"256MiB / 512MiB"}
ExampleDockerLine == DockerLine(TRUE, TRUE, JStr(S_12_5pct), JStr(S_256MiB))

\* a step of the loop over the docker log reads the line at res_i'
DockerLineRead == pc = "docker" /\ pc' = "docker" /\ res_i' = res_i + 1

\* C12: a well-formed line of the docker log appends one CPU sample, the number of
\* the cpu field without its percent sign, and one RSS sample, the leading number
\* of the mem part before "/" times the unit factor (KB, KiB 1/1024; MB, MiB 1;
\* GB, GiB 1024; any letter case); cpu "12.5%" with mem "256MiB / 512MiB" gives
\* (12.5, 256.0).
C12_WellFormedLineSample ==
    [][DockerLineRead /\ WellFormedLine(docker_log.lines[res_i']) =>
          /\ cpu_vals' = Append(cpu_vals, CpuOfLine(docker_log.lines[res_i']))
          /\ rss_vals' = Append(rss_vals, RssOfLine(docker_log.lines[res_i']))
          /\ docker_log.lines[res_i'] = ExampleDockerLine =>
                /\ Last(cpu_vals') = Num((25 * One) \div 2)
                /\ Last(rss_vals') = Num(256 * MbOne)]_vars

\* the example line was just read after a line in kilobytes: the samples are
\* (7.0, 0.5) and (12.5, 256.0)
C12_Witness ==
    /\ pc = "docker" /\ res_i = 2
    /\ docker_log.lines[2] = ExampleDockerLine
    /\ WellFormedLine(docker_log.lines[1])
    /\ MemUnitText(docker_log.lines[1].mem.s) \in KiloUnits
    /\ cpu_vals = <<Num(7 * One), Num((25 * One) \div 2)>>
    /\ rss_vals = <<Num(MbOne \div 2), Num(256 * MbOne)>>

\* a data row of the pidstat log: not blank, starting with a digit, without the
\* marker %CPU, with at least ten columns and numbers in columns 6 and 9
DataRow(parts) ==
    /\ parts # <<>>
    /\ IsDigit(parts[1][1])
    /\ \A i \in 1..Len(parts) : ~Contains(parts[i], T_pctCPU)
    /\ Len(parts) >= 10
    /\ PyFloatOk(parts[7]) /\ PyFloatOk(parts[10])

\* a step of the loop over the pidstat log reads the line at res_i'
PidstatLineRead == pc = "pidstat" /\ pc' = "pidstat" /\ res_i' = res_i + 1

\* C13: a line of the pidstat log appends one sample (column 6 as CPU, column 9
\* divided by 1024 as RSS) exactly when it is a data row; any other line, also a
\* row with too few columns or a non-numeric column, leaves both lists as they
\* were; %CPU "7.0" with RSS "204800" gives (7.0, 200.0).
C13_RowSampleOrSkipped ==
    [][PidstatLineRead =>
          LET parts == pidstat_log.lines[res_i']
          IN  IF DataRow(parts)
              THEN /\ cpu_vals' = Append(cpu_vals, PyFloat(parts[7]))
                   /\ rss_vals' = Append(rss_vals, KbToMb(PyFloat(parts[10])))
                   /\ parts[7] = T_7_0 /\ parts[10] = T_204800 =>
                         /\ Last(cpu_vals') = Num(7 * One)
                         /\ Last(rss_vals') = Num(200 * MbOne)
              ELSE UNCHANGED <<cpu_vals, rss_vals>>]_vars

\* the aggregate of one channel as the claim states it: the number 0 twice for no
\* samples; else the maximum and the arithmetic mean of the samples (rounded to
\* the given decimal places), two numbers with peak >= mean
ChannelAggregate(vals, mean, peak, places, unit) ==
    IF vals = <<>> THEN mean = IntCell(0) /\ peak = IntCell(0)
    ELSE /\ IsNum(mean) /\ IsNum(peak)
         /\ \E i \in 1..Len(vals) :
               /\ \A j \in 1..Len(vals) : IsNum(vals[j]) /\ vals[j].v <= vals[i].v
               /\ peak = PyRound(vals[i], places, unit)
         /\ mean = PyRound(Num(FRound(CellSum(vals), Len(vals))), places, unit)
         /\ peak.v >= mean.v

\* C14: in the written summary a channel without samples has mean 0 and peak 0;
\* a channel with samples has their maximum as peak and their arithmetic mean as
\* mean, so peak >= mean.
C14_ZeroFallbackAndPeakAboveMean ==
    pc = "res_done" =>
        /\ summary.written
        /\ ChannelAggregate(cpu_vals, summary.mean_cpu_pct, summary.peak_cpu_pct, 2, One)
        /\ ChannelAggregate(rss_vals, summary.mean_rss_mb, summary.peak_rss_mb, 1, MbOne)

----------------------------------------------------------------------------
(* Further properties of main (Spec) *)

WideWritten == pc \in {"perf", "ops", "done"}

MetricSet == {DS_METRICS[m] : m \in 1..Len(DS_METRICS)}

\* C15: the wide table has one row per dataset of the fixed list, in its order,
\* one column {env}_{metric} for every environment and metric, and every cell is
\* the mean of the one long-form row of the same dataset, environment and
\* metric, the no-data marker included.
C15_WideMatchesLong ==
    WideWritten =>
        /\ Len(wide_rows) = Len(DATASETS)
        /\ \A d \in 1..Len(DATASETS) :
              /\ wide_rows[d].Dataset = DATASETS[d]
              /\ DOMAIN wide_rows[d].cells = EnvSet \X MetricSet
              /\ \A env \in EnvSet, metric \in MetricSet :
                    /\ Len(RowsWithKey(DATASETS[d], env, metric)) = 1
                    /\ wide_rows[d].cells[<<env, metric>>]
                          = RowsWithKey(DATASETS[d], env, metric)[1].mean

\* the wide table is written with a no-data cell, and with a dataset and metric
\* whose two environments have different numeric means
C15_Witness ==
    /\ pc = "done"
    /\ \E d \in 1..Len(DATASETS), col \in EnvSet \X MetricSet : IsNaN(wide_rows[d].cells[col])
    /\ \E d \in 1..Len(DATASETS), metric \in MetricSet :
          /\ IsNum(wide_rows[d].cells[<<"Bare-Metal", metric>>])
          /\ IsNum(wide_rows[d].cells[<<"Container", metric>>])
          /\ wide_rows[d].cells[<<"Bare-Metal", metric>>]
                # wide_rows[d].cells[<<"Container", metric>>]

\* the runs of the environment that contribute a value to the group
ContributingRuns(ds, env, metric) ==
    {i \in 1..Len(EnvDirs(EnvIndex(env))) :
        ~RunLacksValue(EnvDirs(EnvIndex(env))[i], ds, metric)}

\* C17: on every datasets_summary row n is the number of per-run samples left
\* after the missing ones are discarded; n >= 1 implies numeric
\* ci_low <= mean <= ci_high, and n = 1 implies ci_low = ci_high = mean.
C17_CountOfSamples ==
    SummaryWritten =>
        \A i \in 1..Len(ds_summary) :
            LET r == ds_summary[i]
            IN  /\ r.n.v = Cardinality(ContributingRuns(r.dataset, r.env, r.metric))
                /\ r.n.v >= 1 =>
                      /\ IsNum(r.mean) /\ IsNum(r.ci_low) /\ IsNum(r.ci_high)
                      /\ r.ci_low.v <= r.mean.v /\ r.mean.v <= r.ci_high.v
                /\ r.n.v = 1 => r.ci_low = r.mean /\ r.ci_high = r.mean

----------------------------------------------------------------------------
(* Further properties of agg_dataset_file (SpecAgg) *)

\* a valid record: an object without a string in a metric field
ValidRecord(d) == d.k = "object" /\ \A key \in EvalKeys : d.f[key].t # "str"

\* C18: for a file that parses to a non-empty list, agg_dataset_file raises
\* nothing, and every mean is the mean over the valid records, the invalid ones
\* (not an object, or a non-numeric metric value) being skipped.
C18_InvalidRecordSkipped ==
    pc = "agg_done" /\ ds_file.k = "list" /\ Len(ds_file.items) >= 1 =>
        LET valid == SelectSeq(ds_file.items, ValidRecord)
        IN  /\ ~ds_out.raised
            /\ ds_out.bleu = safe_mean(Column(valid, "bleu"))
            /\ ds_out.rouge = safe_mean(Column(valid, "rouge"))
            /\ ds_out.pass1 = safe_mean(Column(valid, "pass@1"))
            /\ ds_out.latency_ms = safe_mean(Column(valid, "latency"))

----------------------------------------------------------------------------
(* Properties of agg_extended_file (SpecExt) *)

\* C19: for an extended summary with a per_load object, an entry whose key is no
\* integer is skipped, every other entry is kept in order with users the integer
\* value of its key, and no entry makes agg_extended_file fail.
C19_MalformedEntryNotFatal ==
    pc = "ext_done" /\ ext_file.k = "object" /\ ext_file.pl_k = "object" =>
        LET kept == SelectSeq(ext_file.pl, LAMBDA e : PyIntOk(e.key))
        IN  /\ ext_out.k = "ok"
            /\ Len(ext_out.perf) = Len(kept)
            /\ \A i \in 1..Len(kept) : ext_out.perf[i].users = PyInt(kept[i].key)

----------------------------------------------------------------------------
(* Further properties of the resource monitor section (SpecRes) *)

\* a record with a cpu field that reads as a number
CpuRecord(ln) ==
    /\ ln.brace /\ ln.json
    /\ ln.cpu.t = "str" /\ PyFloatOk(StripChars(ln.cpu.s, {"%"}))

\* C20: no line of the docker log aborts the script: a line that is no
\* well-formed record (a banner, truncated or invalid JSON, a record without
\* cpu) adds no sample, the lines after it are still read, and
\* extended_summary.json is written.
C20_NoLineAborts ==
    /\ pc # "res_raised"
    /\ pc = "res_done" => summary.written
    /\ docker_log.present /\ pc \notin {"ae_start", "res_start"} =>
          /\ Len(cpu_vals) = Len(SelectSeq(SubSeq(docker_log.lines, 1, res_i), CpuRecord))
          /\ ResLoopOver => res_i = Len(docker_log.lines)

----------------------------------------------------------------------------
(* Properties of the evaluators (SpecEval) *)

\* the examples for which a request is sent
RequestedExamples == {i \in 1..Len(ev_rows) : ev_rows[i]}

\* C16: every request is bounded by the evaluator's timeout, so no request raises
\* out of the loop, each requested example ends in a scored record or an error
\* marker, and the evaluator eventually writes its result list.
C16_EvaluatorWritesResults ==
    /\ [](pc # "ev_raised")
    /\ <>(/\ pc = "ev_done" /\ ev_written
          /\ Len(ev_results) = Cardinality(RequestedExamples)
          /\ \A i \in 1..Len(ev_results) :
                ev_results[i].error <=> ev_results[i].latency = None)

----------------------------------------------------------------------------
(* Properties of the two sample channels (SpecRes) *)

\* the cpu field of a parsed line reads as a number
CpuParsable(ln) == ln.cpu.t = "str" /\ PyFloatOk(StripChars(ln.cpu.s, {"%"}))

\* the mem field matches the pattern: a number and a unit before "/"
MemMatches(ln) == ln.mem.t = "str" /\ MemMatch(BeforeSlash(ln.mem.s)).ok

\* C21: a line of the docker log with a parsable cpu whose mem does not match the
\* number-plus-unit pattern adds exactly one CPU sample and no RSS sample; a line
\* with an unparsable cpu adds to neither list; at every moment the RSS samples
\* are at most as many as the CPU samples.
C21_ChannelAsymmetry ==
    /\ [](Len(rss_vals) <= Len(cpu_vals))
    /\ [][DockerLineRead =>
            LET ln == docker_log.lines[res_i']
            IN  /\ ln.json /\ CpuParsable(ln) /\ ~MemMatches(ln) =>
                      /\ cpu_vals' = Append(cpu_vals, PyFloat(StripChars(ln.cpu.s, {"%"})))
                      /\ rss_vals' = rss_vals
                /\ ~CpuParsable(ln) => cpu_vals' = cpu_vals /\ rss_vals' = rss_vals]_vars

\* a full record and then a record with mem "-- / --" were read: two CPU samples,
\* one RSS sample
C21_Witness ==
    /\ pc = "docker" /\ res_i = 2
    /\ docker_log.lines[1] = ExampleDockerLine
    /\ CpuParsable(docker_log.lines[2]) /\ docker_log.lines[2].mem = JStr(S_dashes)
    /\ Len(cpu_vals) = 2 /\ Len(rss_vals) = 1

\* every sample and every aggregate of the summary is a number >= 0
NonNegative(x) == x.t \in {"num", "int"} /\ x.v >= 0

\* C22: every sample of either log has cpu_percent >= 0 and rss_megabytes >= 0,
\* and so have the reported means and peaks.
C22_SamplesNonNegative ==
    /\ \A i \in 1..Len(cpu_vals) : NonNegative(cpu_vals[i])
    /\ \A i \in 1..Len(rss_vals) : NonNegative(rss_vals[i])
    /\ summary.written =>
          /\ NonNegative(summary.mean_cpu_pct) /\ NonNegative(summary.peak_cpu_pct)
          /\ NonNegative(summary.mean_rss_mb) /\ NonNegative(summary.peak_rss_mb)

----------------------------------------------------------------------------
(* The operational metrics table (Spec) *)

\* the rows of extended_ops_summary.csv that report the environment; every row
\* has one column for each operational metric
OpsRowsOf(env) == SelectSeq(ops_all, LAMBDA r : r.env = env)

\* C23: for every (operational metric, environment) pair extended_ops_summary.csv
\* has one row, also when no run of the environment contributes, and the row
\* carries the mean of the metric over the runs of the environment.
C23_OpsAggregatedAcrossRuns ==
    pc = "done" =>
        \A e \in EnvSet : \A key \in OpsKeys :
            LET runs == frames[e].ops
                c == ci95([i \in 1..Len(runs) |-> ToNumeric(runs[i].ops[key])])
            IN  /\ Len(OpsRowsOf(e)) = 1
                /\ OpsRowsOf(e)[1].ops[key] = c.m

----------------------------------------------------------------------------
(* Cycles per request (SpecRes) *)

\* the load-level files and the resource log were read without a traceback,
\* and the script has reached the end of its run
CyclesRunOver ==
    /\ pc \in {"res_done", "res_raised"}
    /\ \A i \in 1..Len(csv_files) : ~CsvRaises(csv_files[i])
    /\ \A i \in 1..Len(docker_log.lines) : docker_log.lines[i].brace => docker_log.lines[i].json

\* the throughputs of the load levels that are numbers
Throughputs == {perf_dict[i].throughput_rps.v : i \in {j \in 1..Len(perf_dict) : IsNum(perf_dict[j].throughput_rps)}}

\* perf_cycles.txt gives a positive count and some load level a positive throughput
CyclesKnown ==
    /\ cycles_file.present
    /\ TotalCycles(cycles_file).t = "int" /\ TotalCycles(cycles_file).v > 0
    /\ \E x \in Throughputs : x > 0

\* C24: with a positive cycle count and a positive maximum throughput,
\* cycles_per_req is the count divided by (peak throughput x (deploy_time_s + 1)),
\* rounded to an integer value; in every other case cycles_per_req is null; in
\* both cases extended_summary.json is written.
C24_CyclesPerRequest ==
    CyclesRunOver =>
        /\ summary.written
        /\ IF CyclesKnown
           THEN LET peak == CHOOSE x \in Throughputs : \A y \in Throughputs : y <= x
                IN  summary.cycles_per_req =
                        PyRound(Num(FDiv(FInt(TotalCycles(cycles_file).v),
                                         FMul(peak, FAdd(deploy_s.v, One)))), 0, One)
           ELSE summary.cycles_per_req = None

====
